---- MODULE Spec2Model ----
(***************************************************************************)
(* Model of MCP-Tool-RL: the MCP protocol server (src/mcp/server.py), its   *)
(* client (src/mcp/client.py) and the tool selector EnhancedSONAR          *)
(* (src/selector/sonar.py).                                                *)
(*                                                                         *)
(* The server is a single asyncio process: a coroutine runs atomically     *)
(* from one await that suspends to the next.  Each action below is one     *)
(* such atomic stretch of a coroutine, or one synchronous method call.     *)
(* Scores of the selector are exact rationals <<numerator, denominator>>.  *)
(***************************************************************************)
EXTENDS Integers, Sequences, FiniteSets, TLC

\* ------------------------------------------------------------------------
\* Bounds of the model
\* ------------------------------------------------------------------------
MaxRequests == 2        \* request lines read by the server, all connections
MaxRegisterCalls == 2   \* register_tool calls, duplicates included
MaxBroadcastRequests == 1   \* request lines read while broadcasts are followed
MaxSonarCalls == 2      \* select_tool and update_network_metrics calls

Conns == {"w1", "w2", "w3"}           \* writers of the client connections
Names == {"echo", "boom"}             \* tool ids offered to register_tool
Arguments == {"{x:1}"}                \* arguments objects of tools/call

\* ------------------------------------------------------------------------
\* Python values and protocol constants (src/mcp/protocol.py)
\* ------------------------------------------------------------------------
None == "py:None"
UnhashableValue == "py:[list]"        \* a JSON array or object used as tool id
NotSerializable == <<"py:set">>       \* a value json.dumps rejects

LIST_TOOLS == "tools/list"
CALL_TOOL == "tools/call"
TOOLS_LIST == "tools/list/response"
TOOL_RESULT == "tools/call/response"
ERROR == "error"                      \* MessageType.ERROR
STATUS_ERROR == "error"               \* Status.ERROR
TOOL_REGISTERED == "notification/tool_registered"
PROTOCOL_VERSION == "2024-11-05"
SUCCESS == "success"

Now == "datetime.now"                 \* a timestamp
Elapsed == "elapsed-ms"               \* a measured duration

max_buffer_size == 10 * 1024 * 1024
DescriptionLimit == 200

\* ------------------------------------------------------------------------
\* Descriptions: sequences of characters
\* ------------------------------------------------------------------------
Text(n, ch) == [i \in 1..n |-> ch]
Ellipsis == <<".", ".", ".">>
Short == Text(3, "a")
Full == Text(DescriptionLimit, "b")
Long == Text(DescriptionLimit + 1, "c")

\* description[:200] + "..." if len(description) > 200 else description
NoTruncate(description) == description
StoredDescription(description) ==
    IF Len(description) > DescriptionLimit
    THEN SubSeq(description, 1, DescriptionLimit) \o Ellipsis
    ELSE description

\* the dict register_tool stores under self.tools[name]
ToolEntry(name, description, input_schema) ==
    [name |-> name,
     description |-> StoredDescription(description),
     inputSchema |-> input_schema]

\* ------------------------------------------------------------------------
\* Handlers: what awaiting handler(arguments) does
\* ------------------------------------------------------------------------
\* h_echo returns {echo: arguments}, h_raise raises ValueError("bad"),
\* h_set returns a set, which json.dumps cannot encode
\* the register_tool calls of the model: name, description, schema, handler
Registrations ==
    { <<"echo", Short, "schemaA", "h_echo">>,
      <<"echo", Full,  "schemaB", "h_set">>,
      <<"boom", Long,  "schemaB", "h_raise">> }

\* the registrations made while clients are connected
BroadcastRegistrations == {r \in Registrations : r[4] # "h_set"}

HandlerOutcome(h, arguments) ==
    CASE h = "h_echo"  -> [raised |-> FALSE, value |-> <<"echo", arguments>>]
      [] h = "h_raise" -> [raised |-> TRUE,
                           value |-> [class |-> "ValueError", message |-> "bad"]]
      [] h = "h_set"   -> [raised |-> FALSE, value |-> NotSerializable]

\* ------------------------------------------------------------------------
\* Lines a client can put on the wire
\* ------------------------------------------------------------------------
SmallLine == 64

\* a line: its length without the newline, whether its bytes are UTF-8,
\* whether the text is JSON, whether the JSON value is an object, and the
\* members of that object.
Line(size, utf8, json, isdict, obj) ==
    [size |-> size, utf8 |-> utf8, json |-> json, isdict |-> isdict, obj |-> obj]

ListRequest == [type |-> LIST_TOOLS]
CallRequest(tool, arguments) ==
    [type |-> CALL_TOOL, tool |-> tool, arguments |-> arguments]
CallWithoutTool == [type |-> CALL_TOOL]
UnknownRequest == [type |-> "tools/zzz"]
UntypedRequest == [id |-> "1"]

ToolRefs == Names \cup {"ghost", UnhashableValue}

Objects ==
    {ListRequest, CallWithoutTool, UnknownRequest, UntypedRequest}
    \cup {CallRequest(t, a) : t \in ToolRefs, a \in Arguments}

Lines ==
    {Line(SmallLine, TRUE, TRUE, TRUE, o) : o \in Objects}
    \cup {Line(max_buffer_size, TRUE, TRUE, TRUE, ListRequest),
          Line(max_buffer_size + 1, TRUE, TRUE, TRUE, ListRequest),
          Line(SmallLine, TRUE, TRUE, FALSE, ListRequest),   \* e.g. [1]
          Line(SmallLine, TRUE, FALSE, FALSE, ListRequest),  \* e.g. {bad
          Line(SmallLine, FALSE, FALSE, FALSE, ListRequest)} \* e.g. 0xff

NoLine == Line(0, TRUE, FALSE, FALSE, ListRequest)   \* no line was read

\* str(e) of an exception
Str(e) == <<e.message>>

\* dict.get(key, default)
Get(obj, key, default) == IF key \in DOMAIN obj THEN obj[key] ELSE default

\* ------------------------------------------------------------------------
\* State
\* ------------------------------------------------------------------------
VARIABLES
    tools,      \* self.tools: insertion-ordered dict, as the sequence of its values
    handlers,   \* self.handlers: name -> handler
    stats,      \* self.stats
    clients,    \* self.clients: the writers in the broadcast set
    pc,         \* where each connection's _handle_client task stands
    cur,        \* the call_tool a connection task is suspended in
    out,        \* what has been written to each writer, in order
    tasks,      \* the _notify_clients tasks created and not yet finished
    reqs,       \* request lines the server has read from each connection
    data,       \* the line the last step read, NoLine if it read none
    last,       \* the operation the last step performed, with what it returned
    calls       \* register_tool calls made / of them those that returned True

vars == <<tools, handlers, stats, clients, pc, cur, out, tasks, reqs, data, last,
          calls>>

EmptyMap == [n \in {} |-> None]
NoCall == [name |-> None, arguments |-> None, handler |-> None]

ToolNames == {tools[i].name : i \in DOMAIN tools}     \* name in self.tools
list_tools == tools                                   \* list(self.tools.values())

Op(op, conn, name, args, ret) ==
    [op |-> op, conn |-> conn, name |-> name, args |-> args, ret |-> ret]

Init ==
    /\ tools = <<>>
    /\ handlers = EmptyMap
    /\ stats = [total_calls |-> 0, successful_calls |-> 0,
                failed_calls |-> 0, tools_registered |-> 0]
    /\ clients = {}
    /\ pc = [c \in Conns |-> "new"]
    /\ cur = [c \in Conns |-> NoCall]
    /\ out = [c \in Conns |-> <<>>]
    /\ tasks = <<>>
    /\ reqs = [c \in Conns |-> 0]
    /\ data = NoLine
    /\ last = Op("init", None, None, None, None)
    /\ calls = [made |-> 0, returned_true |-> 0]

\* ------------------------------------------------------------------------
\* Messages the server builds
\* ------------------------------------------------------------------------
ToolsListResponse ==
    [type |-> TOOLS_LIST, tools |-> list_tools,
     protocol_version |-> PROTOCOL_VERSION, timestamp |-> Now]
ErrorMessage(text) == [type |-> ERROR, error |-> text, timestamp |-> Now]
NotFoundResult(name) ==
    [status |-> STATUS_ERROR, error |-> <<"not found", name>>, timestamp |-> Now]
SuccessResult(name, result) ==
    [status |-> SUCCESS, result |-> result, tool |-> name,
     execution_time_ms |-> Elapsed, timestamp |-> Now]
FailureResult(name, e) ==
    [status |-> STATUS_ERROR, error |-> e, tool |-> name, timestamp |-> Now]
Notification(entry) ==
    [type |-> TOOL_REGISTERED, tool |-> entry, timestamp |-> Now]

\* res["type"] = MessageType.TOOL_RESULT
Tagged(res) ==
    [k \in DOMAIN res \cup {"type"} |-> IF k = "type" THEN TOOL_RESULT ELSE res[k]]

\* json.dumps(response) raises TypeError on a value it cannot encode
JsonEncodable(response) ==
    ~("result" \in DOMAIN response /\ response.result = NotSerializable)

\* _send_response: the line is written unless encoding it raised
Sent(c, response) ==
    IF JsonEncodable(response)
    THEN [out EXCEPT ![c] = Append(@, response)]
    ELSE out

\* ------------------------------------------------------------------------
\* register_tool (synchronous: one atomic step)
\* ------------------------------------------------------------------------
\* a task of _notify_clients: snapshot is list(self.clients), todo the part of
\* it still to be written, at the client whose drain the task awaits
NewTask(entry) == [notification |-> Notification(entry), started |-> FALSE,
                   snapshot |-> {}, todo |-> {}, at |-> None]

\* if name in self.tools
RegisteredNever(name) == FALSE
Registered(name) == name \in ToolNames

\* self.tools[name] = entry: a new key goes last, a known key keeps its place
DictSet(d, name, entry) ==
    IF \E i \in DOMAIN d : d[i].name = name
    THEN [i \in DOMAIN d |-> IF d[i].name = name THEN entry ELSE d[i]]
    ELSE Append(d, entry)

\* self.stats["tools_registered"] += 1
RegistrationNotCounted == stats
\* a registration that starts the call counters again
CallsCleared ==
    [total_calls |-> 0, successful_calls |-> 0, failed_calls |-> 0,
     tools_registered |-> stats.tools_registered + 1]
RegistrationCounted == [stats EXCEPT !.tools_registered = @ + 1]

register_tool(name, description, input_schema, handler) ==
    /\ calls.made < MaxRegisterCalls
    /\ IF Registered(name)
       THEN /\ last' = Op("register_tool", None, name,
                            <<description, input_schema, handler>>, FALSE)
            /\ calls' = [calls EXCEPT !.made = @ + 1]
            /\ UNCHANGED <<tools, handlers, stats, tasks>>
       ELSE LET entry == ToolEntry(name, description, input_schema) IN
            /\ tools' = DictSet(tools, name, entry)
            /\ handlers' = [n \in DOMAIN handlers \cup {name} |->
                               IF n = name THEN handler ELSE handlers[n]]
            /\ stats' = RegistrationCounted
            /\ tasks' = Append(tasks, NewTask(entry))
            /\ last' = Op("register_tool", None, name,
                            <<description, input_schema, handler>>, TRUE)
            /\ calls' = [made |-> calls.made + 1,
                         returned_true |-> calls.returned_true + 1]
    /\ data' = NoLine
    /\ UNCHANGED <<clients, pc, cur, out, reqs>>

\* ------------------------------------------------------------------------
\* _handle_client: one task per connection
\* ------------------------------------------------------------------------
Connect(c) ==
    /\ pc[c] = "new"
    /\ clients' = clients \cup {c}
    /\ pc' = [pc EXCEPT ![c] = "read"]
    /\ last' = Op("connect", c, None, None, None)
    /\ data' = NoLine
    /\ UNCHANGED <<tools, handlers, stats, cur, out, tasks, reqs, calls>>

\* an error of one connection that ends every connection
BreakEndsAll(c) ==
    /\ clients' = {}
    /\ pc' = [d \in Conns |-> IF pc[d] = "new" THEN "new" ELSE "closed"]

\* a finally block that closes the writer and leaves it in the set
BreakLeavesWriter(c) ==
    /\ clients' = clients
    /\ pc' = [pc EXCEPT ![c] = "closed"]

\* break, then the finally block: the writer leaves the set and is closed
Break(c) ==
    /\ clients' = clients \ {c}
    /\ pc' = [pc EXCEPT ![c] = "closed"]

\* _send_response, then the loop goes back to reading
Reply(c, response) ==
    /\ out' = Sent(c, response)
    /\ pc' = [pc EXCEPT ![c] = "read"]
    /\ UNCHANGED clients

Returned(value) == [raised |-> FALSE, value |-> value]
Raised(exception) == [raised |-> TRUE, value |-> <<exception>>]

\* the counters when call_tool reaches its first return, raise or await
FailureNotCounted(name) == [stats EXCEPT !.total_calls = @ + 1]
CallStarted(name) ==
    [stats EXCEPT
        !.total_calls = @ + 1,
        !.failed_calls = IF name # UnhashableValue /\ name \notin DOMAIN handlers
                         THEN @ + 1 ELSE @]

\* call_tool up to the await of the handler
call_tool(c, name, arguments) ==
    /\ stats' = CallStarted(name)
    /\ IF name = UnhashableValue
       THEN \* name not in self.handlers raises TypeError, which ends the loop
            /\ Break(c)
            /\ last' = Op("call_tool", c, name, arguments, Raised("TypeError"))
            /\ UNCHANGED <<out, cur>>
       ELSE IF name \notin DOMAIN handlers
       THEN /\ Reply(c, Tagged(NotFoundResult(name)))
            /\ last' = Op("call_tool", c, name, arguments,
                            Returned(NotFoundResult(name)))
            /\ UNCHANGED cur
       ELSE /\ pc' = [pc EXCEPT ![c] = "handler"]
            /\ cur' = [cur EXCEPT ![c] = [name |-> name, arguments |-> arguments,
                                          handler |-> handlers[name]]]
            /\ last' = Op("call_start", c, name, arguments, None)
            /\ UNCHANGED <<out, clients>>

handle_message(c, msg) ==
    LET msg_type == Get(msg, "type", None) IN
    IF msg_type = LIST_TOOLS
    THEN /\ Reply(c, ToolsListResponse)
         /\ last' = Op("list_tools", c, None, None, None)
         /\ UNCHANGED <<stats, cur>>
    ELSE IF msg_type = CALL_TOOL
    THEN call_tool(c, Get(msg, "tool", None), Get(msg, "arguments", "{}"))
    ELSE /\ Reply(c, ErrorMessage(<<"unknown type", msg_type>>))
         /\ last' = Op("unknown", c, None, None, None)
         /\ UNCHANGED <<stats, cur>>

\* reader.readuntil, data.decode, json.loads, msg.get: the first that raises
ReadOutcome(line) ==
    IF line.size > max_buffer_size THEN "LimitOverrunError"
    ELSE IF ~line.utf8 THEN "UnicodeDecodeError"
    ELSE IF ~line.json THEN "JSONDecodeError"
    ELSE IF ~line.isdict THEN "AttributeError"
    ELSE "message"

RECURSIVE Total(_, _)
Total(f, S) == IF S = {} THEN 0
               ELSE LET c == CHOOSE x \in S : TRUE IN f[c] + Total(f, S \ {c})
TotalRequests == Total(reqs, Conns)

ReadLine(c, line) ==
    /\ pc[c] = "read"
    /\ TotalRequests < MaxRequests
    /\ reqs' = [reqs EXCEPT ![c] = @ + 1]
    /\ data' = line
    /\ LET o == ReadOutcome(line) IN
       IF o = "message"
       THEN handle_message(c, line.obj)
       ELSE IF o = "JSONDecodeError"
       THEN /\ Reply(c, ErrorMessage(<<"Invalid JSON">>))
            /\ last' = Op("invalid_json", c, None, None, None)
            /\ UNCHANGED <<stats, cur>>
       ELSE /\ Break(c)
            /\ last' = Op("break", c, None, None, Raised(o))
            /\ UNCHANGED <<stats, cur, out>>
    /\ UNCHANGED <<tools, handlers, tasks, calls>>

\* asyncio.TimeoutError after 60 s without a line: continue
ReadTimeout(c) ==
    /\ pc[c] = "read"
    /\ UNCHANGED vars

\* asyncio.IncompleteReadError, the peer closed: break
ReadEOF(c) ==
    /\ pc[c] = "read"
    /\ Break(c)
    /\ last' = Op("break", c, None, None, Raised("IncompleteReadError"))
    /\ data' = NoLine
    /\ UNCHANGED <<tools, handlers, stats, cur, out, tasks, reqs, calls>>

\* call_tool from the handler's completion to its return, then
\* handle_message's tag and _send_response
CallResult(name, outcome) ==
    IF outcome.raised
    THEN FailureResult(name, Str(outcome.value))
    ELSE SuccessResult(name, outcome.value)

CountedAsSuccess(outcome) == [stats EXCEPT !.successful_calls = @ + 1]
CallCounted(outcome) ==
    IF outcome.raised
    THEN [stats EXCEPT !.failed_calls = @ + 1]
    ELSE [stats EXCEPT !.successful_calls = @ + 1]

HandlerDone(c) ==
    /\ pc[c] = "handler"
    /\ LET outcome == HandlerOutcome(cur[c].handler, cur[c].arguments)
           res == CallResult(cur[c].name, outcome)
       IN /\ stats' = CallCounted(outcome)
          /\ Reply(c, Tagged(res))
          /\ last' = Op("call_tool", c, cur[c].name, cur[c].arguments,
                          Returned(res))
    /\ cur' = [cur EXCEPT ![c] = NoCall]
    /\ data' = NoLine
    /\ UNCHANGED <<tools, handlers, tasks, reqs, calls>>

\* get_stats: success_rate is the pair <<numerator, denominator>>
get_stats ==
    [tools |-> stats.tools_registered,
     total_calls |-> stats.total_calls,
     successful_calls |-> stats.successful_calls,
     failed_calls |-> stats.failed_calls,
     clients |-> Cardinality(clients),
     success_rate |-> IF stats.total_calls > 0
                      THEN <<stats.successful_calls, stats.total_calls>>
                      ELSE <<0, 1>>]

\* ------------------------------------------------------------------------
\* _notify_clients: one task per successful registration
\* ------------------------------------------------------------------------
RemoveAt(s, i) == SubSeq(s, 1, i - 1) \o SubSeq(s, i + 1, Len(s))

\* client.write on a writer that was closed meanwhile sends nothing
WriteDropped(c, notification) == out
Written(c, notification) ==
    IF pc[c] = "closed" THEN out ELSE [out EXCEPT ![c] = Append(@, notification)]

\* an exception of write or drain ends the whole loop
AdvanceAborts(i, c, todo) ==
    /\ out' = Written(c, tasks[i].notification)
    /\ tasks' = IF todo = {} \/ pc[c] = "closed"
                THEN RemoveAt(tasks, i)
                ELSE [tasks EXCEPT ![i] =
                         [@ EXCEPT !.started = TRUE, !.todo = todo, !.at = c,
                                   !.snapshot = IF tasks[i].started THEN @ ELSE clients]]
    /\ last' = Op("notify", c, tasks[i].notification.tool.name, None, None)

\* client.write, await client.drain() and except: pass for one client of the
\* snapshot; the task is over after the last one
Advance(i, c, todo) ==
    /\ out' = Written(c, tasks[i].notification)
    /\ tasks' = IF todo = {}
                THEN RemoveAt(tasks, i)
                ELSE [tasks EXCEPT ![i] =
                         [@ EXCEPT !.started = TRUE, !.todo = todo, !.at = c,
                                   !.snapshot = IF tasks[i].started THEN @ ELSE clients]]
    /\ last' = Op("notify", c, tasks[i].notification.tool.name, None, None)

\* tasks begin in creation order: the emptiness test, the snapshot of the
\* client set and the first write
NotifyStart(i) ==
    /\ i \in DOMAIN tasks
    /\ ~tasks[i].started
    /\ \A j \in 1..(i - 1) : tasks[j].started
    /\ IF clients = {}
       THEN /\ tasks' = RemoveAt(tasks, i)
            /\ last' = Op("notify", None, tasks[i].notification.tool.name,
                            None, None)
            /\ UNCHANGED out
       ELSE \E c \in clients : Advance(i, c, clients \ {c})
    /\ data' = NoLine
    /\ UNCHANGED <<tools, handlers, stats, clients, pc, cur, reqs, calls>>

\* after a drain that suspended: the next writer of the snapshot
NotifyStep(i) ==
    /\ i \in DOMAIN tasks
    /\ tasks[i].started
    /\ \E c \in tasks[i].todo : Advance(i, c, tasks[i].todo \ {c})
    /\ data' = NoLine
    /\ UNCHANGED <<tools, handlers, stats, clients, pc, cur, reqs, calls>>

\* ------------------------------------------------------------------------
\* History of the broadcast set
\* ------------------------------------------------------------------------
VARIABLE
    present     \* <<name, c>>: writer c was in self.clients when
                \* register_tool(name) returned True

\* register_tool, with a record of the client set when it returned True
RegisterRecorded(name, description, input_schema, handler) ==
    /\ register_tool(name, description, input_schema, handler)
    /\ present' = IF Registered(name)
                  THEN present
                  ELSE present \cup {<<name, c>> : c \in clients}

\* ------------------------------------------------------------------------
\* MCPClient: one client, on connection w1
\* ------------------------------------------------------------------------
VARIABLES
    connected,    \* self.connected
    writer,       \* self.writer: "none" (None), "open" or "closed"
    tools_cache,  \* self.tools_cache
    running,      \* the public method that is awaiting a response, or None
    rpos,         \* lines of the server's output the reader has consumed
    wire          \* lines the client has written and the server has not read

clientVars == <<connected, writer, tools_cache, running, rpos, wire>>
serverState == <<tools, handlers, stats, clients, pc, cur, out, tasks, reqs, calls>>

ClientInit ==
    /\ connected = FALSE
    /\ writer = "none"
    /\ tools_cache = <<>>
    /\ running = None
    /\ rpos = 0
    /\ wire = <<>>

ClientConn == "w1"

\* json.dumps(message) + "\n"
ClientLine(message) == Line(SmallLine, TRUE, TRUE, TRUE, message)

\* request lines the client has written so far
ClientSent == reqs[ClientConn] + Len(wire)

\* a public method returns or raises
Finish(method, ret) ==
    /\ running' = None
    /\ last' = Op(method, ClientConn, None, None, ret)

\* send_message: if not self.connected: raise ConnectionError
AlwaysSend == TRUE
CanSend == connected

\* send_message up to the await of the response: the line is written
Send(method, message) ==
    /\ ClientSent < MaxRequests
    /\ wire' = Append(wire, ClientLine(message))
    /\ running' = method
    /\ last' = Op("MCPClient.send", ClientConn, method, message, None)

\* connect: the transport opens, connected is set, list_tools sends
connect ==
    /\ running = None /\ writer = "none"
    /\ writer' = "open"
    /\ connected' = TRUE
    /\ Send("connect", ListRequest)
    /\ data' = NoLine
    /\ UNCHANGED <<tools_cache, rpos>>
    /\ UNCHANGED serverState

\* connect: asyncio.open_connection raises, connect logs and re-raises
connect_refused ==
    /\ running = None /\ writer = "none"
    /\ last' = Op("MCPClient.connect", ClientConn, None, None,
                    Raised("ConnectionRefusedError"))
    /\ data' = NoLine
    /\ UNCHANGED clientVars
    /\ UNCHANGED serverState

disconnect ==
    /\ running = None
    /\ writer' = IF writer = "none" THEN "none" ELSE "closed"
    /\ connected' = FALSE
    /\ last' = Op("MCPClient.disconnect", ClientConn, None, None, Returned(None))
    /\ data' = NoLine
    /\ UNCHANGED <<tools_cache, running, rpos, wire>>
    /\ UNCHANGED serverState

\* list_tools: a failure of send_message is caught and [] is returned
client_list_tools ==
    /\ running = None
    /\ IF CanSend
       THEN Send("list_tools", ListRequest)
       ELSE /\ last' = Op("MCPClient.list_tools", ClientConn, None, None,
                            Returned(<<>>))
            /\ UNCHANGED <<running, wire>>
    /\ data' = NoLine
    /\ UNCHANGED <<connected, writer, tools_cache, rpos>>
    /\ UNCHANGED serverState

client_call_tool(name, arguments) ==
    /\ running = None
    /\ IF CanSend
       THEN Send("call_tool", CallRequest(name, arguments))
       ELSE /\ last' = Op("MCPClient.call_tool", ClientConn, None, None,
                            Raised("ConnectionError"))
            /\ UNCHANGED <<running, wire>>
    /\ data' = NoLine
    /\ UNCHANGED <<connected, writer, tools_cache, rpos>>
    /\ UNCHANGED serverState

\* _read_message returns the next line, json.loads gives the response
ClientRead ==
    /\ running # None
    /\ rpos < Len(out[ClientConn])
    /\ rpos' = rpos + 1
    /\ LET response == out[ClientConn][rpos + 1]
           listed == Get(response, "tools", <<>>)
       IN CASE running = "call_tool" ->
                 /\ Finish("MCPClient.call_tool", Returned(response))
                 /\ UNCHANGED tools_cache
            [] running = "list_tools" ->
                 /\ tools_cache' = listed
                 /\ Finish("MCPClient.list_tools", Returned(listed))
            [] running = "connect" ->
                 /\ tools_cache' = listed
                 /\ Finish("MCPClient.connect", Returned(None))
    /\ data' = NoLine
    /\ UNCHANGED <<connected, writer, wire>>
    /\ UNCHANGED serverState

\* what a read that times out makes send_message do
TimeoutSwallowed == Returned(<<>>)
TimedOut == Raised("TimeoutError")

\* _read_message raised: call_tool lets it through, list_tools returns [],
\* and so connect returns normally
ReadFailure(failure) ==
    /\ running # None
    /\ rpos = Len(out[ClientConn])
    /\ CASE running = "call_tool" -> Finish("MCPClient.call_tool", failure)
         [] running = "list_tools" ->
                 Finish("MCPClient.list_tools", Returned(<<>>))
         [] running = "connect" -> Finish("MCPClient.connect", Returned(None))
    /\ data' = NoLine
    /\ UNCHANGED <<connected, writer, tools_cache, rpos, wire>>
    /\ UNCHANGED serverState

\* asyncio.TimeoutError: no line within 30 s
ClientTimeout == pc[ClientConn] # "closed" /\ ReadFailure(TimedOut)

\* asyncio.IncompleteReadError with nothing buffered: the server closed
ClientEOF == pc[ClientConn] = "closed" /\ ReadFailure(Raised("IncompleteReadError"))

\* the server reads the line the client wrote first
ServerRead ==
    /\ wire # <<>>
    /\ ReadLine(ClientConn, Head(wire))
    /\ wire' = Tail(wire)
    /\ UNCHANGED <<connected, writer, tools_cache, running, rpos>>

\* ------------------------------------------------------------------------
\* EnhancedSONAR (src/selector/sonar.py)
\* ------------------------------------------------------------------------
\* Scores are exact fractions <<numerator, denominator>> in lowest terms.
RECURSIVE GCD(_, _)
GCD(a, b) == IF b = 0 THEN a ELSE GCD(b, a % b)
Q(n, d) == LET g == GCD(IF n < 0 THEN -n ELSE n, d) IN <<n \div g, d \div g>>
QAdd(a, b) == Q(a[1] * b[2] + b[1] * a[2], a[2] * b[2])
QSub(a, b) == Q(a[1] * b[2] - b[1] * a[2], a[2] * b[2])
QMul(a, b) == Q(a[1] * b[1], a[2] * b[2])
QDiv(a, b) == Q(a[1] * b[2], a[2] * b[1])          \* b > 0
QLess(a, b) == a[1] * b[2] < b[1] * a[2]
QMax(a, b) == IF QLess(a, b) THEN b ELSE a           \* max(a, b)
QMin(a, b) == IF QLess(b, a) THEN b ELSE a           \* min(a, b)
Zero == Q(0, 1)
One == Q(1, 1)

\* a function on 1..n as the list of its values
AsList(f) == f \o <<>>

RECURSIVE QSum(_)
QSum(s) == IF s = <<>> THEN Zero ELSE QAdd(Head(s), QSum(Tail(s)))

\* str.lower() on the strings of the model
SameCase(str) == str
Lower(str) ==
    CASE str = "Math" -> "math"
      [] str = "MATH" -> "math"
      [] str = "X" -> "x"
      [] str = "Y" -> "y"
      [] OTHER -> str

\* the catalog: self.tools.values(), in insertion order.  A parameter is a
\* dict with a name and a description, or (malformed) a bare string.
Param(name, description) ==
    [isdict |-> TRUE, name |-> name, description |-> description]
BareParam(text) == [isdict |-> FALSE, name |-> text, description |-> ""]

ToolSpec(id, category, description, examples, parameters) ==
    [id |-> id, name |-> id, category |-> category, description |-> description,
     examples |-> examples, parameters |-> parameters]

Numeric == <<Param("x", "first"), Param("y", "second")>>

Catalog ==
    << ToolSpec("add",   "math", Text(30, "d"), <<"ex">>, Numeric),
       ToolSpec("sum",   "Math", Text(30, "d"), <<"ex">>, Numeric),
       ToolSpec("upper", "text", Text(5, "d"),  <<>>,     <<BareParam("s")>>),
       ToolSpec("find",  "geo",  Text(30, "d"), <<>>,     <<>>),
       ToolSpec("mul",   "math", Text(30, "d"), <<"ex">>, <<Param("x", "only")>>) >>

ToolIds == {Catalog[i].id : i \in DOMAIN Catalog}

\* the arguments of select_tool: query, context, use_semantic, use_network
NoContext == [k \in {} |-> ""]      \* context = None, or {}
Selections ==
    { <<"add two numbers", NoContext, TRUE, TRUE>>,
      <<"add two numbers", NoContext, FALSE, FALSE>>,
      <<"any of them", [category |-> "MATH"], TRUE, FALSE>>,
      <<"any of them", NoContext, FALSE, TRUE>>,
      <<"any of them", [category |-> "void"], TRUE, TRUE>>,
      <<"nothing alike", NoContext, TRUE, TRUE>>,
      <<"add two numbers", [required_params |-> <<"X">>], TRUE, TRUE>>,
      <<"add two numbers", [category |-> "math", required_params |-> <<"X">>],
        TRUE, TRUE>>,
      <<"any of them", [category |-> "math", required_params |-> <<"X", "Y">>],
        FALSE, TRUE>>,
      <<"embedder down", NoContext, TRUE, TRUE>> }

\* the Embedder boundary: the similarity of a tool to a query
Similarity(query, id) ==
    CASE query = "add two numbers" ->
             (CASE id = "add" -> Q(9, 10) [] id = "sum" -> Q(4, 5)
                [] id = "mul" -> Q(1, 2)  [] id = "find" -> Q(1, 5)
                [] OTHER -> Q(1, 10))
      [] query = "any of them" ->
             (CASE id \in {"add", "sum"} -> Q(1, 2)
                [] id = "find" -> Q(2, 5) [] id = "mul" -> Q(9, 20)
                [] OTHER -> Q(1, 5))
      [] OTHER ->
             (CASE id = "add" -> Q(1, 10) [] id = "sum" -> Q(1, 20)
                [] id = "mul" -> Q(1, 25) [] id = "find" -> Q(1, 50)
                [] OTHER -> Zero)

\* the embedder raises (no model available) on this query
EmbedderRaises(query) == query = "embedder down"

\* the updates of update_network_metrics: tool id, latency in ms, success
Updates ==
    { <<"add", 2500, FALSE>>, <<"add", 100, TRUE>>, <<"sum", 100, TRUE>> }

\* config.selection, read by the selector and the embedder
Configs ==
    { [top_k_candidates |-> 5, semantic_weight |-> Q(2, 5),
       network_weight |-> Q(3, 10), diversity_weight |-> Q(1, 5),
       min_similarity_threshold |-> Q(3, 10)],
      [top_k_candidates |-> 2, semantic_weight |-> Q(1, 2),
       network_weight |-> Zero, diversity_weight |-> Q(1, 2),
       min_similarity_threshold |-> Q(3, 5)] }

RecentWindow == 20            \* selection_history[-20:]
DiversityFloor == Q(1, 10)
DefaultNetworkScore == Q(7, 10)
DefaultSemanticScore == Q(1, 2)
QualityWeight == Q(1, 10)
MaxAlternatives == 3          \* scored_tools[1:4]
LatencyWindow == 100          \* latency_history[-100:]
DefaultLatency == 100
MaxLatency == 5000
DefaultSuccessRate == Q(4, 5)
HistoryLimit == 1000
HistoryKept == 500

VARIABLES
    config,             \* self.config
    network_metrics,    \* self.network_metrics: tool id -> NetworkMetrics
    selection_history,  \* self.selection_history
    selected,           \* what the last select_tool call returned and scored
    invoked,            \* the last call of the selector: its arguments and,
                        \* for select_tool, what _filter_by_context gave
    sonar_calls         \* select_tool / update_network_metrics calls made

sonarVars == <<config, network_metrics, selection_history, selected, invoked,
               sonar_calls>>

\* s[-n:]
FirstN(s, n) == SubSeq(s, 1, IF Len(s) > n THEN n ELSE Len(s))
LastN(s, n) == SubSeq(s, IF Len(s) > n THEN Len(s) - n + 1 ELSE 1, Len(s))

\* sum(s), by halves
RECURSIVE SumRange(_, _, _)
SumRange(s, lo, hi) ==
    IF lo > hi THEN 0
    ELSE IF lo = hi THEN s[lo]
    ELSE LET mid == (lo + hi) \div 2
         IN SumRange(s, lo, mid) + SumRange(s, mid + 1, hi)
Sum(s) == SumRange(s, 1, Len(s))

\* NetworkMetrics
avg_latency(m) ==
    IF m.latency_history = <<>>
    THEN Q(DefaultLatency, 1)
    ELSE LET recent == LastN(m.latency_history, LatencyWindow)
         IN Q(Sum(recent), Len(recent))

success_rate(m) ==
    IF m.call_count = 0 THEN DefaultSuccessRate
    ELSE Q(m.success_count, m.call_count)

reliability_score(m) ==
    LET latency_score ==
            QMax(Zero, QSub(One, QDiv(avg_latency(m), Q(MaxLatency, 1))))
    IN QAdd(QMul(latency_score, Q(2, 5)), QMul(success_rate(m), Q(3, 5)))

\* an entry that counts a call before any update
PreCounted(tool_id) ==
    [tool_id |-> tool_id, latency_history |-> <<>>, success_history |-> <<>>,
     call_count |-> 1, success_count |-> 0]

NewMetrics(tool_id) ==
    [tool_id |-> tool_id, latency_history |-> <<>>, success_history |-> <<>>,
     call_count |-> 0, success_count |-> 0]

\* an update that starts from an empty entry: what was recorded is lost
FreshEntry(m, latency, success) ==
    [tool_id |-> m.tool_id,
     latency_history |-> <<latency>>,
     success_history |-> <<success>>,
     call_count |-> 1,
     success_count |-> IF success THEN 1 ELSE 0]

\* an update that counts the samples it retains
CountsRetained(m, latency, success) ==
    LET latencies == Append(m.latency_history, latency)
        successes == Append(m.success_history, success)
        trim == Len(latencies) > HistoryLimit
        kept == IF trim THEN LastN(successes, HistoryKept) ELSE successes
    IN [tool_id |-> m.tool_id,
        latency_history |-> IF trim THEN LastN(latencies, HistoryKept) ELSE latencies,
        success_history |-> kept,
        call_count |-> Len(kept),
        success_count |-> Cardinality({i \in DOMAIN kept : kept[i]})]

update(m, latency, success) ==
    LET latencies == Append(m.latency_history, latency)
        successes == Append(m.success_history, success)
        trim == Len(latencies) > HistoryLimit
    IN [tool_id |-> m.tool_id,
        latency_history |-> IF trim THEN LastN(latencies, HistoryKept) ELSE latencies,
        success_history |-> IF trim THEN LastN(successes, HistoryKept) ELSE successes,
        call_count |-> m.call_count + 1,
        success_count |-> IF success THEN m.success_count + 1 ELSE m.success_count]

\* the entry of a tool after n updates, of latencies 1, 2, .., n ms, the
\* even ones successful
Sampled(tool_id, n) ==
    [tool_id |-> tool_id,
     latency_history |-> [i \in 1..n |-> i],
     success_history |-> [i \in 1..n |-> i % 2 = 0],
     call_count |-> n, success_count |-> n \div 2]

\* the metrics a run of updates starts from: none, or those of a tool one
\* update before its history is full, or with its history full
MetricsStarts ==
    {EmptyMap} \cup {[id \in {"add"} |-> Sampled("add", n)] :
                        n \in {HistoryLimit - 1, HistoryLimit}}

\* the updates of a run on the metrics alone; a latency is a difference of
\* two time.time() readings in ms
Latencies == {-5000, 0, 100, 2500, 10000}
MetricUpdates == {"add", "sum"} \X Latencies \X BOOLEAN

\* _get_network_score
get_network_score(tool_id) ==
    IF tool_id \in DOMAIN network_metrics
    THEN reliability_score(network_metrics[tool_id])
    ELSE DefaultNetworkScore

\* _get_diversity_score
WholeHistory(history) == history
Recent(history) == LastN(history, RecentWindow)

get_diversity_score(tool_id) ==
    LET recent == Recent(selection_history)
        recent_uses ==
            Cardinality({i \in DOMAIN recent :
                            Get(recent[i].selected_tool, "id", None) = tool_id})
    IN QMax(DiversityFloor, QSub(One, Q(recent_uses, RecentWindow)))

\* _evaluate_tool_quality
evaluate_tool_quality(tool) ==
    LET described == Len(tool.description) > 20
        examples == tool.examples # <<>>
        parameters == tool.parameters # <<>>
        described_params ==
            \E i \in DOMAIN tool.parameters :
                tool.parameters[i].isdict /\ tool.parameters[i].description # ""
    IN QMin(One,
            QSum(<< Q(1, 2),
                    IF described THEN Q(1, 5) ELSE Zero,
                    IF examples THEN Q(3, 20) ELSE Zero,
                    IF parameters THEN Q(1, 10) ELSE Zero,
                    IF parameters /\ described_params THEN Q(1, 20) ELSE Zero >>))

\* _compute_tool_score: the weights as they are assembled, and as they are
\* applied after `if total_weight > 0`
assembled_weights(use_network) ==
    <<config.semantic_weight>>
        \o (IF use_network THEN <<config.network_weight>> ELSE <<>>)
        \o <<config.diversity_weight, QualityWeight>>

Unnormalized(use_network) == assembled_weights(use_network)
normalized_weights(use_network) ==
    LET weights == assembled_weights(use_network)
        total_weight == QSum(weights)
    IN IF QLess(Zero, total_weight)
       THEN AsList([i \in DOMAIN weights |-> QDiv(weights[i], total_weight)])
       ELSE weights

\* a score that takes the network signal whatever use_network says
ScoreWithNetwork(tool, semantic_score, use_network) ==
    LET scores == <<semantic_score, get_network_score(tool.id),
                    get_diversity_score(tool.id), evaluate_tool_quality(tool)>>
        applied == normalized_weights(TRUE)
        final_score ==
            QSum(AsList([i \in DOMAIN scores |-> QMul(scores[i], applied[i])]))
    IN QMin(One, QMax(Zero, final_score))

\* _compute_tool_score
compute_tool_score(tool, semantic_score, use_network) ==
    LET network == IF use_network THEN <<get_network_score(tool.id)>> ELSE <<>>
        scores == <<semantic_score>> \o network
                    \o <<get_diversity_score(tool.id), evaluate_tool_quality(tool)>>
        applied == normalized_weights(use_network)
        final_score ==
            QSum(AsList([i \in DOMAIN scores |-> QMul(scores[i], applied[i])]))
    IN QMin(One, QMax(Zero, final_score))

\* a breakdown that reports the default similarity
BreakdownOfDefault(tool, semantic_score, use_network) ==
    IF use_network
    THEN [semantic |-> DefaultSemanticScore, diversity |-> get_diversity_score(tool.id),
          quality |-> evaluate_tool_quality(tool),
          network |-> get_network_score(tool.id)]
    ELSE [semantic |-> DefaultSemanticScore, diversity |-> get_diversity_score(tool.id),
          quality |-> evaluate_tool_quality(tool)]

\* _get_score_breakdown
get_score_breakdown(tool, semantic_score, use_network) ==
    IF use_network
    THEN [semantic |-> semantic_score, diversity |-> get_diversity_score(tool.id),
          quality |-> evaluate_tool_quality(tool),
          network |-> get_network_score(tool.id)]
    ELSE [semantic |-> semantic_score, diversity |-> get_diversity_score(tool.id),
          quality |-> evaluate_tool_quality(tool)]

\* _filter_by_context: the tools that pass, or the exception of the first
\* tool on which the test raises (p.get on a parameter that is a string)
filter_by_context(context) ==
    IF DOMAIN context = {}
    THEN Returned(Catalog)
    ELSE LET category == Get(context, "category", None)
             required_params == Get(context, "required_params", <<>>)
             required_lower ==
                 {Lower(required_params[i]) : i \in DOMAIN required_params}
             Skipped(tool) ==
                 category # None /\ Lower(tool.category) # Lower(category)
             Breaks(tool) ==
                 /\ ~Skipped(tool)
                 /\ required_params # <<>>
                 /\ \E i \in DOMAIN tool.parameters : ~tool.parameters[i].isdict
             tool_params(tool) ==
                 {Lower(tool.parameters[i].name) : i \in DOMAIN tool.parameters}
             Passes(tool) ==
                 /\ ~Skipped(tool)
                 /\ required_params # <<>> => required_lower \subseteq tool_params(tool)
         IN IF \E i \in DOMAIN Catalog : Breaks(Catalog[i])
            THEN Raised("AttributeError")
            ELSE Returned(SelectSeq(Catalog, Passes))

\* embedder.semantic_search: the candidates by descending similarity (equal
\* similarities in any order), the first top_k of them, cut at the first
\* one below the threshold
RECURSIVE Descending(_, _)
Descending(sims, indices) ==
    IF indices = {} THEN {<<>>}
    ELSE LET best == {i \in indices :
                         \A j \in indices : ~QLess(sims[i], sims[j])}
         IN UNION {{<<i>> \o rest : rest \in Descending(sims, indices \ {i})} :
                      i \in best}

semantic_search(query, candidate_tools, top_k) ==
    LET sims == AsList([i \in DOMAIN candidate_tools |->
                           Similarity(query, candidate_tools[i].id)])
        Kept(i) == ~QLess(sims[i], config.min_similarity_threshold)
        Result(i) == [tool |-> candidate_tools[i], similarity |-> sims[i],
                      tool_id |-> candidate_tools[i].id]
    IN { LET top == SubSeq(order, 1, IF Len(order) > top_k THEN top_k ELSE Len(order))
             kept == SelectSeq(top, Kept)
         IN [i \in DOMAIN kept |-> Result(kept[i])]
         : order \in Descending(sims, DOMAIN candidate_tools) }

\* selection records made before the run starts: those of calls that had
\* the one tool as their only candidate (no later call reads their scores)
PastRecord(k, tool) ==
    [selection_id |-> <<"sel", k>>,
     selected_tool |-> [id |-> tool.id, name |-> tool.name,
                        category |-> tool.category, score |-> One],
     query |-> "past", timestamp |-> Now, processing_time_ms |-> Elapsed,
     candidates_evaluated |-> 1, alternatives |-> <<>>,
     score_components |-> [semantic |-> DefaultSemanticScore, diversity |-> One,
                           quality |-> One]]

\* `uses` of the last 20 records chose the first tool of the catalog, the
\* others the second; older records may precede them
WindowUses == {0, 10, 19, 20}
OlderChoices == {<<>>, <<1>>, <<2, 1>>}
Past(older, uses) ==
    LET choices == older \o [i \in 1..RecentWindow |-> IF i <= uses THEN 1 ELSE 2]
    IN [k \in DOMAIN choices |-> PastRecord(k, Catalog[choices[k]])]
Histories ==
    {<<>>} \cup {Past(older, uses) : older \in OlderChoices, uses \in WindowUses}

NoSelection == [tool |-> None, info |-> NoContext, scored |-> <<>>]
NotInvoked == [op |-> "none"]

SonarInit ==
    /\ config \in Configs
    /\ network_metrics = EmptyMap
    /\ selection_history \in Histories
    /\ selected = NoSelection
    /\ invoked = NotInvoked
    /\ sonar_calls = [select |-> 0, update |-> 0]

\* the selector is not used
SonarIdle ==
    /\ config = CHOOSE c \in Configs : c.top_k_candidates = 5
    /\ network_metrics = EmptyMap
    /\ selection_history = <<>>
    /\ selected = NoSelection
    /\ invoked = NotInvoked
    /\ sonar_calls = [select |-> 0, update |-> 0]

\* scored_tools.sort(key=lambda x: x[1], reverse=True): equal scores keep
\* their order
UnstableDescending(scored) ==
    LET Before(i, j) ==
            \/ QLess(scored[j].score, scored[i].score)
            \/ scored[i].score = scored[j].score /\ i > j
        Rank(i) == Cardinality({j \in DOMAIN scored : Before(j, i)})
    IN [r \in DOMAIN scored |-> scored[CHOOSE i \in DOMAIN scored : Rank(i) = r - 1]]
StableDescending(scored) ==
    LET Before(i, j) ==
            \/ QLess(scored[j].score, scored[i].score)
            \/ scored[i].score = scored[j].score /\ i < j
        Rank(i) == Cardinality({j \in DOMAIN scored : Before(j, i)})
    IN [r \in DOMAIN scored |-> scored[CHOOSE i \in DOMAIN scored : Rank(i) = r - 1]]

\* return None, {"error": "No suitable tools found"}
NoCandidatesTagged(selection_id) ==
    [error |-> <<"No suitable tools found">>, selection_id |-> selection_id]
NoCandidates(selection_id) == [error |-> <<"No suitable tools found">>]

\* Steps 5 and 6: the alternatives, the record, the append and the return
Record(selection_id, query, use_network, semantic_scores, scored_tools, sorted) ==
    LET selected_tool == sorted[1].tool
        final_score == sorted[1].score
        others == SubSeq(sorted, 2,
                         IF Len(sorted) > MaxAlternatives + 1
                         THEN MaxAlternatives + 1 ELSE Len(sorted))
        alternatives ==
            [i \in DOMAIN others |->
                [id |-> others[i].tool.id, name |-> others[i].tool.name,
                 score |-> others[i].score,
                 category |-> others[i].tool.category]]
        selection_info ==
            [selection_id |-> selection_id,
             selected_tool |-> [id |-> selected_tool.id,
                                name |-> selected_tool.name,
                                category |-> selected_tool.category,
                                score |-> final_score],
             query |-> query, timestamp |-> Now,
             processing_time_ms |-> Elapsed,
             candidates_evaluated |-> Len(scored_tools),
             alternatives |-> alternatives,
             score_components |->
                 get_score_breakdown(
                     selected_tool,
                     Get(semantic_scores, selected_tool.id, DefaultSemanticScore),
                     use_network)]
    IN /\ selection_history' = Append(selection_history, selection_info)
       /\ selected' = [tool |-> selected_tool, info |-> selection_info,
                       scored |-> scored_tools]

\* select_tool from `if not candidate_tools` to its return
Choose(selection_id, query, use_network, candidate_tools, semantic_scores) ==
    IF candidate_tools = <<>>
    THEN /\ selected' = [tool |-> None, info |-> NoCandidates(selection_id),
                         scored |-> <<>>]
         /\ UNCHANGED selection_history
    ELSE LET top == SubSeq(candidate_tools, 1,
                           IF Len(candidate_tools) > config.top_k_candidates
                           THEN config.top_k_candidates ELSE Len(candidate_tools))
             Scored(tool) ==
                 [tool |-> tool,
                  score |-> compute_tool_score(
                                tool,
                                Get(semantic_scores, tool.id, DefaultSemanticScore),
                                use_network)]
         IN \E scored_tools \in {AsList([i \in DOMAIN top |-> Scored(top[i])])} :
            \E sorted \in {AsList(StableDescending(scored_tools))} :
                Record(selection_id, query, use_network, semantic_scores,
                       scored_tools, sorted)

\* except Exception as e: return None, {"error": str(e), "selection_id": ...}
UntaggedError(e, selection_id) == [error |-> e]
CaughtError(e, selection_id) == [error |-> e, selection_id |-> selection_id]

Caught(e, selection_id) ==
    /\ selected' = [tool |-> None, info |-> CaughtError(e, selection_id),
                    scored |-> <<>>]
    /\ UNCHANGED selection_history

select_tool(query, context, use_semantic, use_network) ==
    /\ sonar_calls.select + sonar_calls.update < MaxSonarCalls
    /\ sonar_calls' = [sonar_calls EXCEPT !.select = @ + 1]
    /\ invoked' = [op |-> "select_tool", query |-> query, context |-> context,
                   use_semantic |-> use_semantic, use_network |-> use_network,
                   filtered |-> filter_by_context(context)]
    /\ LET selection_id == <<"sel", Len(selection_history) + 1>>
           filtered == filter_by_context(context)
       IN IF filtered.raised
          THEN Caught(filtered.value, selection_id)
          ELSE IF use_semantic /\ filtered.value # <<>>
          THEN IF EmbedderRaises(query)
               THEN Caught(<<"RuntimeError">>, selection_id)
               ELSE \E semantic_results \in
                        semantic_search(query, filtered.value,
                                        config.top_k_candidates) :
                      LET ids == {semantic_results[i].tool_id :
                                     i \in DOMAIN semantic_results}
                          Of(id) == CHOOSE i \in DOMAIN semantic_results :
                                       semantic_results[i].tool_id = id
                      IN Choose(selection_id, query, use_network,
                                [i \in DOMAIN semantic_results |->
                                    semantic_results[i].tool],
                                [id \in ids |-> semantic_results[Of(id)].similarity])
          ELSE Choose(selection_id, query, use_network, filtered.value, NoContext)
    /\ UNCHANGED <<config, network_metrics>>

update_network_metrics(tool_id, latency, success) ==
    /\ sonar_calls.select + sonar_calls.update < MaxSonarCalls
    /\ sonar_calls' = [sonar_calls EXCEPT !.update = @ + 1]
    /\ invoked' = [op |-> "update_network_metrics", tool_id |-> tool_id,
                   latency |-> latency, success |-> success]
    /\ LET m == IF tool_id \in DOMAIN network_metrics
                THEN network_metrics[tool_id]
                ELSE NewMetrics(tool_id)
       IN network_metrics' =
              [id \in DOMAIN network_metrics \cup {tool_id} |->
                  IF id = tool_id THEN update(m, latency, success)
                  ELSE network_metrics[id]]
    /\ UNCHANGED <<config, selection_history, selected>>

\* ------------------------------------------------------------------------
\* The wire form of a request (src/mcp/client.py, src/mcp/server.py)
\* ------------------------------------------------------------------------
\* Python values.  A str is the sequence of its characters; "e-acute" is a
\* character outside ASCII and "a*BIG" stands for max_buffer_size times "a".
PyStr(chars) == [py |-> "str", v |-> chars]
PyInt(n) == [py |-> "int", v |-> n]
PyBool(b) == [py |-> "bool", v |-> b]
PyNone == [py |-> "none", v |-> <<>>]
PyList(items) == [py |-> "list", v |-> items]
PyTuple(items) == [py |-> "tuple", v |-> items]
PyDict(keys, vals) == [py |-> "dict", v |-> [keys |-> keys, vals |-> vals]]
PySet == [py |-> "set", v |-> <<>>]
EmptyDict == PyDict(<<>>, <<>>)

Word(text) == PyStr(<<text>>)      \* a str of plain characters, kept whole

\* the decimal digits of the integers of the model
Digit(n) == CASE n = 1 -> "1" [] n = 7 -> "7"
IntOf(token) == CASE token = "1" -> 1 [] token = "7" -> 7

\* the length in bytes of a piece of text
Width(token) ==
    CASE token = "a*BIG" -> max_buffer_size
      [] token = "tools/call" -> 10
      [] token = "arguments" -> 9
      [] token \in {"u00e9", "false"} -> 5
      [] token \in {"true", "null", "type", "tool"} -> 4
      [] token = "e-acute" -> 2
      [] OTHER -> 1
Size(text) == Sum(AsList([i \in DOMAIN text |-> Width(text[i])]))

RECURSIVE Concat(_)
Concat(parts) == IF parts = <<>> THEN <<>> ELSE Head(parts) \o Concat(Tail(parts))

RECURSIVE Join(_, _)
Join(parts, separator) ==
    IF Len(parts) <= 1 THEN Concat(parts)
    ELSE Head(parts) \o separator \o Join(Tail(parts), separator)

\* json.dumps of a character of a str (ensure_ascii is left True)
NoEscape(ch) == <<ch>>
Escape(ch) ==
    CASE ch = "\n" -> <<"\\", "n">>
      [] ch = "\"" -> <<"\\", "\"">>
      [] ch = "\\" -> <<"\\", "\\">>
      [] ch = "e-acute" -> <<"\\", "u00e9">>
      [] OTHER -> <<ch>>

dumps_str(chars) ==
    <<"\"">> \o Concat([i \in DOMAIN chars |-> Escape(chars[i])]) \o <<"\"">>

\* json.dumps of a key of a dict: an int key becomes the str of its digits
dumps_key(key) ==
    IF key.py = "int" THEN dumps_str(<<Digit(key.v)>>) ELSE dumps_str(key.v)

\* json.dumps raises TypeError on a value that holds a set
RECURSIVE Serializable(_)
Serializable(value) ==
    CASE value.py = "set" -> FALSE
      [] value.py \in {"list", "tuple"} ->
            \A i \in DOMAIN value.v : Serializable(value.v[i])
      [] value.py = "dict" ->
            \A i \in DOMAIN value.v.vals : Serializable(value.v.vals[i])
      [] OTHER -> TRUE

\* json.dumps with the default separators
RECURSIVE dumps(_)
dumps(value) ==
    CASE value.py = "str" -> dumps_str(value.v)
      [] value.py = "int" -> <<Digit(value.v)>>
      [] value.py = "bool" -> <<IF value.v THEN "true" ELSE "false">>
      [] value.py = "none" -> <<"null">>
      [] value.py \in {"list", "tuple"} ->
            <<"[">> \o Join([i \in DOMAIN value.v |-> dumps(value.v[i])],
                            <<",", " ">>)
                    \o <<"]">>
      [] value.py = "dict" ->
            <<"{">> \o Join([i \in DOMAIN value.v.keys |->
                                dumps_key(value.v.keys[i]) \o <<":", " ">>
                                    \o dumps(value.v.vals[i])],
                            <<",", " ">>)
                    \o <<"}">>

\* json.loads: the value and the text left, or a failure
Parsed(value, rest) == [ok |-> TRUE, value |-> value, rest |-> rest]
Unparsed == [ok |-> FALSE, value |-> PyNone, rest |-> <<>>]

RECURSIVE Skip(_)
Skip(text) ==
    IF text # <<>> /\ Head(text) \in {" ", "\n"} THEN Skip(Tail(text)) ELSE text

Unescape(token) ==
    CASE token = "n" -> "\n"
      [] token = "u00e9" -> "e-acute"
      [] OTHER -> token                  \* \" and \\

\* dict[key] = value
Put(dict, key, value) ==
    IF \E i \in DOMAIN dict.v.keys : dict.v.keys[i] = key
    THEN LET at == CHOOSE i \in DOMAIN dict.v.keys : dict.v.keys[i] = key
         IN PyDict(dict.v.keys, [dict.v.vals EXCEPT ![at] = value])
    ELSE PyDict(Append(dict.v.keys, key), Append(dict.v.vals, value))

RECURSIVE ParseChars(_, _)
RECURSIVE ParseValue(_)
RECURSIVE ParseItems(_, _)
RECURSIVE ParseMembers(_, _)

\* the characters of a str up to its closing quote; a raw control character
\* is not allowed in a str
ParseChars(text, chars) ==
    IF text = <<>> \/ Head(text) = "\n" THEN Unparsed
    ELSE IF Head(text) = "\"" THEN Parsed(PyStr(chars), Tail(text))
    ELSE IF Head(text) = "\\"
    THEN IF Len(text) < 2 THEN Unparsed
         ELSE ParseChars(Tail(Tail(text)), Append(chars, Unescape(text[2])))
    ELSE ParseChars(Tail(text), Append(chars, Head(text)))

ParseValue(text) ==
    LET rest == Skip(text) IN
    IF rest = <<>> THEN Unparsed
    ELSE CASE Head(rest) = "\"" -> ParseChars(Tail(rest), <<>>)
           [] Head(rest) = "[" -> ParseItems(Tail(rest), <<>>)
           [] Head(rest) = "{" -> ParseMembers(Tail(rest), EmptyDict)
           [] Head(rest) \in {"1", "7"} -> Parsed(PyInt(IntOf(Head(rest))), Tail(rest))
           [] Head(rest) = "true" -> Parsed(PyBool(TRUE), Tail(rest))
           [] Head(rest) = "false" -> Parsed(PyBool(FALSE), Tail(rest))
           [] Head(rest) = "null" -> Parsed(PyNone, Tail(rest))
           [] OTHER -> Unparsed

\* the items of an array after "[" or after a ","
ParseItems(text, items) ==
    LET rest == Skip(text) IN
    IF rest = <<>> THEN Unparsed
    ELSE IF Head(rest) = "]" /\ items = <<>> THEN Parsed(PyList(items), Tail(rest))
    ELSE LET item == ParseValue(rest)
             after == Skip(item.rest)
         IN IF ~item.ok \/ after = <<>> THEN Unparsed
            ELSE IF Head(after) = ","
            THEN ParseItems(Tail(after), Append(items, item.value))
            ELSE IF Head(after) = "]"
            THEN Parsed(PyList(Append(items, item.value)), Tail(after))
            ELSE Unparsed

\* the members of an object after "{" or after a ","
ParseMembers(text, dict) ==
    LET rest == Skip(text) IN
    IF rest = <<>> THEN Unparsed
    ELSE IF Head(rest) = "}" /\ dict = EmptyDict THEN Parsed(dict, Tail(rest))
    ELSE IF Head(rest) # "\"" THEN Unparsed
    ELSE LET key == ParseChars(Tail(rest), <<>>)
             colon == Skip(key.rest)
         IN IF ~key.ok \/ colon = <<>> \/ Head(colon) # ":" THEN Unparsed
            ELSE LET member == ParseValue(Tail(colon))
                     after == Skip(member.rest)
                 IN IF ~member.ok \/ after = <<>> THEN Unparsed
                    ELSE IF Head(after) = ","
                    THEN ParseMembers(Tail(after), Put(dict, key.value, member.value))
                    ELSE IF Head(after) = "}"
                    THEN Parsed(Put(dict, key.value, member.value), Tail(after))
                    ELSE Unparsed

loads(text) ==
    LET parsed == ParseValue(text) IN
    IF parsed.ok /\ Skip(parsed.rest) = <<>>
    THEN Returned(parsed.value)
    ELSE Raised("JSONDecodeError")

\* dict.get of a str key on a decoded object
Member(dict, name, default) ==
    IF \E i \in DOMAIN dict.v.keys : dict.v.keys[i] = Word(name)
    THEN dict.v.vals[CHOOSE i \in DOMAIN dict.v.keys : dict.v.keys[i] = Word(name)]
    ELSE default

\* the tools and the arguments given to MCPClient.call_tool
Key(text) == Word(text)
RequestTools ==
    { PyStr(<<"e", "c", "h", "o">>),
      PyStr(<<"a", "\n", "b">>),
      PyStr(<<"e-acute", "\"", "\\">>),
      PyStr(<<>>) }
RequestArguments ==
    { EmptyDict,
      PyDict(<<Key("x")>>, <<PyInt(1)>>),
      PyDict(<<Key("x")>>, <<PyStr(<<"a", "\n", "b">>)>>),
      PyDict(<<PyStr(<<"x", "\n">>)>>, <<PyBool(TRUE)>>),
      PyDict(<<Key("k"), Key("x")>>, <<PyNone, PyList(<<PyInt(1), PyInt(7)>>)>>),
      PyDict(<<Key("x")>>, <<PyDict(<<Key("y")>>, <<PyStr(<<"\\", "n">>)>>)>>),
      PyDict(<<Key("x"), Key("y")>>, <<PyBool(FALSE), PyStr(<<>>)>>),
      PyDict(<<Key("x")>>, <<PyStr(<<"e-acute", "\"">>)>>),
      PyDict(<<Key("x")>>, <<PyList(<<>>)>>),
      PyDict(<<Key("x")>>, <<PyStr(<<"a*BIG">>)>>),
      PyDict(<<Key("x")>>, <<PyTuple(<<PyInt(1), PyInt(7)>>)>>),
      PyDict(<<PyInt(1)>>, <<PyStr(<<"a">>)>>),
      PyDict(<<Key("x")>>, <<PySet>>) }

VARIABLES
    request,    \* the name and the arguments call_tool was given
    written,    \* the bytes the client wrote for them
    received,   \* what the server's read of these bytes gave to handle_message
    codec_pc    \* "call", "written", "raised" (in the client) or "read"

codecVars == <<request, written, received, codec_pc>>

NoRequest == [tool |-> PyNone, arguments |-> EmptyDict]

\* no request is followed
CodecIdle ==
    /\ request = NoRequest
    /\ written = <<>>
    /\ received = Returned(NoRequest)
    /\ codec_pc = "idle"

CodecInit ==
    /\ request \in [tool : RequestTools, arguments : RequestArguments]
    /\ written = <<>>
    /\ received = Returned(NoRequest)
    /\ codec_pc = "call"

\* call_tool and send_message down to writer.write: json.dumps(msg) + "\n"
Encode ==
    /\ codec_pc = "call"
    /\ LET msg == PyDict(<<Key("type"), Key("tool"), Key("arguments")>>,
                         <<Word(CALL_TOOL), request.tool, request.arguments>>)
       IN IF Serializable(msg)
          THEN written' = dumps(msg) \o <<"\n">> /\ codec_pc' = "written"
          ELSE written' = <<>> /\ codec_pc' = "raised"
    /\ UNCHANGED <<request, received>>

\* reader.readuntil(b'\n'): the bytes up to the first newline, unless there
\* are more of them than the limit
readuntil(stream) ==
    LET newline == CHOOSE i \in DOMAIN stream :
                       /\ stream[i] = "\n"
                       /\ \A j \in 1..(i - 1) : stream[j] # "\n"
    IN IF Size(SubSeq(stream, 1, newline - 1)) > max_buffer_size
       THEN Raised("LimitOverrunError")
       ELSE Returned(SubSeq(stream, 1, newline))

\* _handle_client from readuntil to the arguments of call_tool
Decode ==
    /\ codec_pc = "written"
    /\ codec_pc' = "read"
    /\ LET bytes == readuntil(written)
           msg == loads(bytes.value)
       IN received' =
              IF bytes.raised THEN bytes
              ELSE IF msg.raised THEN msg
              ELSE IF msg.value.py # "dict" THEN Raised("AttributeError")
              ELSE Returned([tool |-> Member(msg.value, "tool", PyNone),
                             arguments |-> Member(msg.value, "arguments", EmptyDict)])
    /\ UNCHANGED <<request, written>>

\* ------------------------------------------------------------------------
\* Specification
\* ------------------------------------------------------------------------
\* the variables the server's own steps leave alone, and their idle values
ServerOnly == UNCHANGED <<present, clientVars, sonarVars, codecVars>>
ClientOnly == UNCHANGED <<present, sonarVars, codecVars>>
Unused == present = {} /\ ClientInit /\ SonarIdle /\ CodecIdle

\* the server is constructed; no client and no selector call yet
Start == Init /\ Unused

\* One connection: requests of every kind, registrations at any time.
Next ==
    \/ ServerOnly /\ \E r \in Registrations : register_tool(r[1], r[2], r[3], r[4])
    \/ ServerOnly /\ Connect("w1")
    \/ ServerOnly /\ \E c \in Conns, line \in Lines : ReadLine(c, line)
    \/ ServerOnly /\ \E c \in Conns : ReadTimeout(c)
    \/ ServerOnly /\ \E c \in Conns : ReadEOF(c)
    \/ ServerOnly /\ \E c \in Conns : HandlerDone(c)
    \/ ServerOnly /\ \E i \in 1..MaxRegisterCalls : NotifyStart(i)

Spec == Start /\ [][Next]_vars

\* Several connections, with the requests that are answered normally.
PlainLines == {Line(SmallLine, TRUE, TRUE, TRUE, o) :
                  o \in {ListRequest, CallRequest("echo", "{x:1}")}}

\* connections are accepted in the order w1, w2, w3
Accept(c) ==
    /\ c = "w2" => pc["w1"] # "new"
    /\ c = "w3" => pc["w2"] # "new"
    /\ Connect(c)
ClientPair == {"w1", "w2"}

NextClients ==
    \/ /\ \E r \in BroadcastRegistrations :
             RegisterRecorded(r[1], r[2], r[3], r[4])
       /\ UNCHANGED <<clientVars, sonarVars, codecVars>>
    \/ ServerOnly /\ \E c \in ClientPair : Accept(c)
    \/ ServerOnly /\ \E c \in Conns, line \in PlainLines :
                        TotalRequests < MaxBroadcastRequests /\ ReadLine(c, line)
    \/ ServerOnly /\ \E c \in Conns : ReadEOF(c)
    \/ ServerOnly /\ \E c \in Conns : HandlerDone(c)
    \/ ServerOnly /\ \E i \in 1..MaxRegisterCalls : NotifyStart(i)
    \/ ServerOnly /\ \E i \in 1..MaxRegisterCalls : NotifyStep(i)

SpecClients == Start /\ [][NextClients]_vars

\* One client and the server it is connected to.
NextClient ==
    \/ ServerOnly /\ \E r \in BroadcastRegistrations :
                        register_tool(r[1], r[2], r[3], r[4])
    \/ ServerOnly /\ writer # "none" /\ Connect(ClientConn)
    \/ ClientOnly /\ ServerRead
    \/ ServerOnly /\ ReadEOF(ClientConn)
    \/ ServerOnly /\ HandlerDone(ClientConn)
    \/ ServerOnly /\ \E i \in 1..MaxRegisterCalls : NotifyStart(i)
    \/ ClientOnly /\ connect
    \/ ClientOnly /\ connect_refused
    \/ ClientOnly /\ disconnect
    \/ ClientOnly /\ client_list_tools
    \/ ClientOnly /\ \E n \in Names, a \in Arguments : client_call_tool(n, a)
    \/ ClientOnly /\ ClientRead
    \/ ClientOnly /\ ClientTimeout
    \/ ClientOnly /\ ClientEOF

allVars == <<vars, present, clientVars, sonarVars, codecVars>>
SpecClient == Start /\ [][NextClient]_allVars

\* The selector on its own: selections and outcome updates in any order.
NextSonar ==
    \/ /\ \E a \in Selections : select_tool(a[1], a[2], a[3], a[4])
       /\ UNCHANGED <<vars, present, clientVars, codecVars>>
    \/ /\ \E u \in Updates : update_network_metrics(u[1], u[2], u[3])
       /\ UNCHANGED <<vars, present, clientVars, codecVars>>

\* The metrics on their own: outcome updates of any latency.
MetricsStart ==
    /\ Init /\ present = {} /\ ClientInit /\ CodecIdle
    /\ config = CHOOSE c \in Configs : c.top_k_candidates = 5
    /\ network_metrics \in MetricsStarts
    /\ selection_history = <<>>
    /\ selected = NoSelection
    /\ invoked = NotInvoked
    /\ sonar_calls = [select |-> 0, update |-> 0]

NextMetrics ==
    /\ \E u \in MetricUpdates : update_network_metrics(u[1], u[2], u[3])
    /\ UNCHANGED <<vars, present, clientVars, codecVars>>

SpecMetrics == MetricsStart /\ [][NextMetrics]_allVars

\* The scoring under any weights: the configured ones, none, and negative
\* ones; the metrics hold nothing or the entry of one call of negative latency.
WeightConfigs ==
    { [top_k_candidates |-> 5, semantic_weight |-> Q(2, 5),
       network_weight |-> Q(3, 10), diversity_weight |-> Q(1, 5),
       min_similarity_threshold |-> Q(3, 10)],
      [top_k_candidates |-> 5, semantic_weight |-> Zero,
       network_weight |-> Zero, diversity_weight |-> Zero,
       min_similarity_threshold |-> Q(3, 10)],
      [top_k_candidates |-> 5, semantic_weight |-> One,
       network_weight |-> One, diversity_weight |-> One,
       min_similarity_threshold |-> Q(3, 10)],
      [top_k_candidates |-> 5, semantic_weight |-> Q(-1, 10),
       network_weight |-> Q(1, 2), diversity_weight |-> Zero,
       min_similarity_threshold |-> Q(3, 10)] }

ScoreStart ==
    /\ Init /\ present = {} /\ ClientInit /\ CodecIdle
    /\ config \in WeightConfigs
    /\ network_metrics \in
          {EmptyMap,
           [id \in {"add"} |-> update(NewMetrics("add"), -5000, TRUE)]}
    /\ selection_history \in {<<>>, Past(<<>>, 19)}
    /\ selected = NoSelection
    /\ invoked = NotInvoked
    /\ sonar_calls = [select |-> 0, update |-> 0]

NextScore ==
    /\ \E a \in Selections : select_tool(a[1], a[2], a[3], a[4])
    /\ UNCHANGED <<vars, present, clientVars, codecVars>>

SpecScore == ScoreStart /\ [][NextScore]_allVars

\* The selector after outcomes and selections were recorded, as
\* update_network_metrics and select_tool leave it: "add" failed once in
\* 2500 ms (reliability 0.2), "sum" succeeded once in 1250 ms (0.9), and 15
\* of the last 20 selections chose "add", the other 5 "mul".
RecordedMetrics ==
    [id \in {"add", "sum"} |->
        IF id = "add" THEN update(NewMetrics("add"), 2500, FALSE)
        ELSE update(NewMetrics("sum"), 1250, TRUE)]

\* update_network_metrics takes any latency: "add" succeeded once in
\* -50000 ms and "sum" once in -100000 ms
NegativeLatencies ==
    [id \in {"add", "sum"} |->
        IF id = "add" THEN update(NewMetrics("add"), -50000, TRUE)
        ELSE update(NewMetrics("sum"), -100000, TRUE)]

RecordedHistory ==
    [k \in 1..RecentWindow |->
        PastRecord(k, Catalog[IF k <= 15 THEN 1 ELSE 5])]

RecordedStart ==
    /\ Init /\ present = {} /\ ClientInit /\ CodecIdle
    /\ config \in Configs
    /\ network_metrics \in {RecordedMetrics, NegativeLatencies, EmptyMap}
    /\ selection_history \in {RecordedHistory, Past(<<>>, 10)}
    /\ selected = NoSelection
    /\ invoked = NotInvoked
    /\ sonar_calls = [select |-> 0, update |-> 0]

SpecRecorded == RecordedStart /\ [][NextSonar]_allVars

\* One request from call_tool to the server's handle_message.
CodecStart == Init /\ present = {} /\ ClientInit /\ SonarIdle /\ CodecInit

NextCodec ==
    \/ Encode /\ UNCHANGED <<vars, present, clientVars, sonarVars>>
    \/ Decode /\ UNCHANGED <<vars, present, clientVars, sonarVars>>

SpecCodec == CodecStart /\ [][NextCodec]_allVars

\* Two connections, each with requests that are answered and lines that end
\* the connection.
FatalLines ==
    {Line(max_buffer_size + 1, TRUE, TRUE, TRUE, ListRequest),
     Line(SmallLine, TRUE, TRUE, FALSE, ListRequest),
     Line(SmallLine, TRUE, TRUE, TRUE, CallRequest(UnhashableValue, "{x:1}"))}

\* the server as main.py starts it: a tool was registered, and its broadcast
\* ran, before any client could connect
ErrorsStart ==
    /\ \E r \in BroadcastRegistrations :
          /\ tools = <<ToolEntry(r[1], r[2], r[3])>>
          /\ handlers = [n \in {r[1]} |-> r[4]]
          /\ last = Op("notify", None, r[1], None, None)
    /\ stats = [total_calls |-> 0, successful_calls |-> 0,
                failed_calls |-> 0, tools_registered |-> 1]
    /\ clients = {}
    /\ pc = [c \in Conns |-> "new"]
    /\ cur = [c \in Conns |-> NoCall]
    /\ out = [c \in Conns |-> <<>>]
    /\ tasks = <<>>
    /\ reqs = [c \in Conns |-> 0]
    /\ data = NoLine
    /\ calls = [made |-> 1, returned_true |-> 1]
    /\ Unused

NextErrors ==
    \/ ServerOnly /\ \E c \in ClientPair : Accept(c)
    \/ ServerOnly /\ \E c \in ClientPair, line \in PlainLines \cup FatalLines :
                        ReadLine(c, line)
    \/ ServerOnly /\ \E c \in ClientPair : ReadEOF(c)
    \/ ServerOnly /\ \E c \in ClientPair : HandlerDone(c)

SpecErrors == ErrorsStart /\ [][NextErrors]_allVars

\* Three connections and the broadcasts of the registrations. The client of
\* SlowConn has stopped reading and its transport's buffer is over the high
\* water mark: await client.drain() on it returns (with an exception) only
\* when the connection is lost.
SlowConn == "w3"

\* the peers that may close their connection
PeerCloses == {"w2", "w3"}

\* the drain awaited by task i returns and the loop goes to its next client
DrainReturns(i) ==
    /\ i \in DOMAIN tasks
    /\ tasks[i].at # SlowConn \/ pc[SlowConn] = "closed"
    /\ NotifyStep(i)

NextBroadcast ==
    \/ /\ \E r \in BroadcastRegistrations :
             RegisterRecorded(r[1], r[2], r[3], r[4])
       /\ UNCHANGED <<clientVars, sonarVars, codecVars>>
    \/ ServerOnly /\ \E c \in Conns : Accept(c)
    \/ ServerOnly /\ \E c \in PeerCloses : ReadEOF(c)
    \/ ServerOnly /\ \E i \in 1..MaxRegisterCalls : NotifyStart(i)
    \/ ServerOnly /\ \E i \in 1..MaxRegisterCalls : DrainReturns(i)

\* the event loop runs every task that is ready: a broadcast that can start
\* starts, and a broadcast whose drain has returned goes on
SpecBroadcast ==
    /\ Start
    /\ [][NextBroadcast]_allVars
    /\ \A i \in 1..MaxRegisterCalls :
          /\ WF_allVars(ServerOnly /\ NotifyStart(i))
          /\ WF_allVars(ServerOnly /\ DrainReturns(i))

\* the selector is constructed, with the history of earlier selections
SonarStart == Init /\ present = {} /\ ClientInit /\ SonarInit /\ CodecIdle
SpecSonar == SonarStart /\ [][NextSonar]_allVars

\* ------------------------------------------------------------------------
\* Properties
\* ------------------------------------------------------------------------
IsNotification(m) == m.type = TOOL_REGISTERED
IsCallResponse(m) == m.type = TOOL_RESULT
Responses(c) == Cardinality({i \in DOMAIN out[c] : ~IsNotification(out[c][i])})
LastWritten(o) == o[Len(o)]
Entry(name) == tools[CHOOSE i \in DOMAIN tools : tools[i].name = name]

\* the step read one more line from connection c
ReadFrom(c) == reqs'[c] = reqs[c] + 1

\* the step wrote exactly one message to c, an error message
AnsweredWithError(c) ==
    /\ Len(out'[c]) = Len(out[c]) + 1
    /\ SubSeq(out'[c], 1, Len(out[c])) = out[c]
    /\ LastWritten(out'[c]).type = ERROR

\* connection c is open and waiting for the next request
StaysOpen(c) == pc'[c] = "read" /\ c \in clients'

\* C1: on every connection, each request line read has been answered by
\* exactly one response line by the time the next one is read (or the
\* connection has ended): responses written = request lines read, less the
\* one whose handler is still running.
C1_OneResponsePerRequest ==
    \A c \in Conns :
        Responses(c) = IF pc[c] = "handler" THEN reqs[c] - 1 ELSE reqs[c]

\* C2: when the handler of a registered tool raises, call_tool returns
\* {status: error, error: str(e)}, failed_calls grows by one and nothing
\* else is counted, the response is written, and the connection is open
\* and reading again with the registry untouched.
C2_HandlerFailureIsReported ==
    [][\A c \in Conns :
        (/\ pc[c] = "handler"
         /\ pc'[c] # "handler"
         /\ HandlerOutcome(cur[c].handler, cur[c].arguments).raised)
        => (/\ last'.op = "call_tool"
            /\ last'.conn = c
            /\ last'.name = cur[c].name
            /\ ~last'.ret.raised
            /\ last'.ret.value.status = STATUS_ERROR
            /\ last'.ret.value.error = <<"bad">>
            /\ stats' = [stats EXCEPT !.failed_calls = @ + 1]
            /\ out'[c] = Append(out[c], Tagged(last'.ret.value))
            /\ StaysOpen(c)
            /\ tools' = tools
            /\ handlers' = handlers)]_vars

\* a failed call to one tool was answered, and a later call to another tool
\* on the same connection succeeded
C2_Witness ==
    \E c \in Conns : \E i, j \in DOMAIN out[c] :
        /\ i < j
        /\ IsCallResponse(out[c][i])
        /\ out[c][i].status = STATUS_ERROR
        /\ "tool" \in DOMAIN out[c][i]
        /\ out[c][i].tool = "boom"
        /\ IsCallResponse(out[c][j])
        /\ out[c][j].status = SUCCESS
        /\ out[c][j].tool = "echo"
        /\ stats.failed_calls = 1
        /\ stats.successful_calls = 1

\* C3: call_tool with an id (a string, or None) that is not registered
\* returns {status: error, error: not found}, runs no handler, adds one to
\* total_calls and one to failed_calls and changes nothing else.
C3_UnknownToolIsCounted ==
    [][(/\ last'.op = "call_tool"
        /\ last'.name # UnhashableValue
        /\ last'.name \notin DOMAIN handlers)
       => (/\ ~last'.ret.raised
           /\ last'.ret.value.status = STATUS_ERROR
           /\ last'.ret.value.error = <<"not found", last'.name>>
           /\ stats' = [stats EXCEPT !.total_calls = @ + 1,
                                     !.failed_calls = @ + 1]
           /\ tools' = tools
           /\ handlers' = handlers
           /\ cur' = cur
           /\ \A c \in Conns : pc'[c] = "handler" => pc[c] = "handler")]_vars

\* the unregistered id "ghost" was called once, while another tool is
\* registered
C3_Witness ==
    /\ last.op = "call_tool"
    /\ last.name = "ghost"
    /\ tools # <<>>
    /\ stats = [total_calls |-> 1, successful_calls |-> 0,
                failed_calls |-> 1, tools_registered |-> 1]

\* C4: a register_tool call for an id that is already registered returns
\* False and changes nothing: tools, handlers, stats, the pending
\* notification tasks and what was written to the clients are as before.
C4_DuplicateRegistrationIsNoOp ==
    [][(/\ calls'.made = calls.made + 1
        /\ last'.name \in ToolNames)
       => (/\ last'.op = "register_tool"
           /\ last'.ret = FALSE
           /\ tools' = tools
           /\ handlers' = handlers
           /\ stats' = stats
           /\ tasks' = tasks
           /\ out' = out
           /\ clients' = clients)]_vars

\* a second registration of "echo", with another schema and handler than
\* the stored ones, returned False
C4_Witness ==
    /\ last.op = "register_tool"
    /\ last.ret = FALSE
    /\ last.name = "echo"
    /\ Entry("echo").inputSchema # last.args[2]
    /\ handlers["echo"] # last.args[3]

\* C5: len(list_tools()) = number of register_tool calls that returned True
\* = stats.tools_registered, and tools and handlers have the same keys.
C5_ListLengthIsRegistrations ==
    /\ Len(list_tools) = calls.returned_true
    /\ Len(list_tools) = stats.tools_registered
    /\ ToolNames = DOMAIN handlers
    /\ Cardinality(ToolNames) = Len(list_tools)

\* two calls were made, one of them refused
C5_Witness ==
    /\ calls.made = 2
    /\ calls.returned_true = 1
    /\ Len(list_tools) = 1

\* C6: reading a line that is not valid JSON writes one error message to
\* the connection, leaves it open and changes no counter.
C6_InvalidJsonKeepsConnection ==
    [][\A c \in Conns :
        (ReadFrom(c) /\ ~data'.json)
        => (AnsweredWithError(c) /\ StaysOpen(c) /\ stats' = stats)]_vars

\* C7: a line that decodes to a message whose type is neither tools/list
\* nor tools/call (or that has no type) is answered with one error message
\* and the connection stays open.
C7_UnknownTypeKeepsConnection ==
    [][\A c \in Conns :
        (/\ ReadFrom(c)
         /\ data'.size <= max_buffer_size
         /\ data'.utf8
         /\ data'.json
         /\ (data'.isdict =>
                Get(data'.obj, "type", None) \notin {LIST_TOOLS, CALL_TOOL}))
        => (AnsweredWithError(c) /\ StaysOpen(c))]_vars

\* C8: a line longer than the maximum message size does not end the
\* connection.
C8_OversizedLineKeepsConnection ==
    [][\A c \in Conns :
        (ReadFrom(c) /\ data'.size > max_buffer_size) => StaysOpen(c)]_vars

\* C9: every tools/call/response written carries status, tool,
\* execution_time_ms and timestamp, with result on success and error on
\* failure.
C9_CallResponseFields ==
    \A c \in Conns : \A i \in DOMAIN out[c] :
        IsCallResponse(out[c][i]) =>
            /\ {"status", "tool", "execution_time_ms", "timestamp"}
                   \subseteq DOMAIN out[c][i]
            /\ out[c][i].status = SUCCESS => "result" \in DOMAIN out[c][i]
            /\ out[c][i].status = STATUS_ERROR => "error" \in DOMAIN out[c][i]

\* C10 as stated: every stored description is at most 200 characters long.
C10_AtMost200 ==
    \A i \in DOMAIN tools : Len(tools[i].description) <= DescriptionLimit

\* C10, amended: a stored description is the submitted one when that was at
\* most 200 characters long, and otherwise its first 200 characters followed
\* by "...", 203 characters; list_tools returns the stored descriptions.
C10_TruncatedWithEllipsis ==
    /\ \A i \in DOMAIN tools :
          Len(tools[i].description) <= DescriptionLimit + Len(Ellipsis)
    /\ (last.op = "register_tool" /\ last.ret = TRUE) =>
          LET submitted == last.args[1]
              stored == Entry(last.name).description
          IN /\ Len(submitted) <= DescriptionLimit => stored = submitted
             /\ Len(submitted) > DescriptionLimit =>
                   /\ Len(stored) = DescriptionLimit + Len(Ellipsis)
                   /\ SubSeq(stored, 1, DescriptionLimit)
                         = SubSeq(submitted, 1, DescriptionLimit)
                   /\ SubSeq(stored, DescriptionLimit + 1, Len(stored)) = Ellipsis
    /\ \A c \in Conns : \A i \in DOMAIN out[c] :
          out[c][i].type = TOOLS_LIST => out[c][i].tools \in {list_tools} \cup
              {SubSeq(list_tools, 1, n) : n \in 0..Len(list_tools)}

\* a description of 201 characters was registered and is stored with 203,
\* next to one of exactly 200 characters stored as submitted
C10_Witness ==
    /\ last.op = "register_tool"
    /\ last.ret = TRUE
    /\ \E i, j \in DOMAIN tools :
          /\ Len(tools[i].description) = DescriptionLimit + 3
          /\ tools[j].description = Full

\* ------------------------------------------------------------------------
\* Broadcast of registrations
\* ------------------------------------------------------------------------
\* the notifications of tool `name` written to c
Notified(c, name) ==
    {i \in DOMAIN out[c] : IsNotification(out[c][i]) /\ out[c][i].tool.name = name}
Notifications(o) == SelectSeq(o, IsNotification)
StoredIn(t, name) == t[CHOOSE i \in DOMAIN t : t[i].name = name]

\* the broadcast of tool `name` has been created and has not finished
Pending(name) == \E i \in DOMAIN tasks : tasks[i].notification.tool.name = name

BroadcastState ==
    /\ \A p \in present :
          ~Pending(p[1]) /\ p[2] \in clients
              => Cardinality(Notified(p[2], p[1])) = 1
    /\ \A c \in Conns :
          /\ \A n \in Names : Cardinality(Notified(c, n)) <= 1
          /\ \A i \in DOMAIN out[c] :
                IsNotification(out[c][i])
                    => /\ out[c][i].tool.name \in ToolNames
                       /\ out[c][i] = Notification(Entry(out[c][i].tool.name))
    /\ Len(tasks) <= calls.returned_true
    /\ \A i, j \in DOMAIN tasks :
          tasks[i].notification.tool.name = tasks[j].notification.tool.name
              => i = j

\* what every step satisfies: register_tool writes nothing itself and creates
\* a broadcast exactly when it returns True; a notification is only ever
\* written by a step of a broadcast, one at a time.
BroadcastStep ==
    /\ last'.op = "register_tool"
          => /\ out' = out
             /\ IF last'.ret
                THEN tasks' = Append(tasks, NewTask(StoredIn(tools', last'.name)))
                ELSE tasks' = tasks
    /\ last'.op # "register_tool" => Len(tasks') <= Len(tasks)
    /\ \A c \in Conns :
          Notifications(out'[c]) # Notifications(out[c])
              => /\ last'.op = "notify"
                 /\ last'.conn = c
                 /\ Pending(last'.name)
                 /\ out' = [out EXCEPT
                               ![c] = Append(@, Notification(Entry(last'.name)))]

EndedUnanswered(method) ==
    running = method /\ running' = None /\ rpos' = rpos

\* calls started = calls counted as success or failure, plus the one running
CallsCounted ==
    stats.total_calls =
        stats.successful_calls + stats.failed_calls
        + (IF pc[ClientConn] = "handler" THEN 1 ELSE 0)

\* a call whose handler is running stays as it is, or ends by being counted
\* with its response handed to _send_response
CallRunsToCompletion ==
    pc[ClientConn] = "handler" =>
        \/ /\ pc'[ClientConn] = "handler"
           /\ cur'[ClientConn] = cur[ClientConn]
           /\ stats'.total_calls = stats.total_calls
           /\ stats'.successful_calls = stats.successful_calls
           /\ stats'.failed_calls = stats.failed_calls
        \/ /\ pc'[ClientConn] = "read"
           /\ last'.op = "call_tool"
           /\ last'.name = cur[ClientConn].name
           /\ stats'.total_calls = stats.total_calls
           /\ stats'.successful_calls + stats'.failed_calls
                 = stats.successful_calls + stats.failed_calls + 1
           /\ out' = Sent(ClientConn, Tagged(last'.ret.value))

\* C12: when the client's wait for the response to a call ends by the 30 s
\* timeout, call_tool (send_message) raises TimeoutError and the step changes
\* nothing at the server; the call the server started keeps running whatever
\* the client does and ends only by being counted, so every started call is
\* counted once its handler is done.
C12_TimeoutLeavesCallRunning ==
    /\ []CallsCounted
    /\ [][/\ EndedUnanswered("call_tool") /\ pc[ClientConn] # "closed"
              => /\ last'.op = "MCPClient.call_tool"
                 /\ last'.ret.raised
                 /\ last'.ret.value = <<"TimeoutError">>
                 /\ serverState' = serverState
          /\ CallRunsToCompletion]_allVars

\* connect read the tool list; the call that followed was given up while its
\* handler ran; the handler has now finished and the call is counted, its
\* response lying unread
C12_Witness ==
    /\ last.op = "call_tool" /\ last.conn = ClientConn
    /\ tools_cache # <<>>
    /\ running = None /\ connected
    /\ rpos = 1 /\ Len(out[ClientConn]) = 2
    /\ out[ClientConn][2].type = TOOL_RESULT
    /\ stats.total_calls = 1 /\ stats.successful_calls = 1

\* C13: a list_tools that fails (not connected, timeout, closed connection)
\* raises nothing, returns the empty list and leaves tools_cache empty.
C13_FailedListEmptiesCache ==
    [][last'.op = "MCPClient.list_tools" /\ rpos' = rpos
          => /\ ~last'.ret.raised
             /\ last'.ret.value = <<>>
             /\ tools_cache' = <<>>]_allVars

\* C14: connect either raises, or returns with connected set and tools_cache
\* equal to the tool list the server sent in answer to its ListToolsRequest.
C14_ConnectSucceedsOrRaises ==
    [][last'.op = "MCPClient.connect"
          => \/ last'.ret.raised
             \/ /\ connected'
                /\ rpos' = rpos + 1
                /\ out[ClientConn][rpos'].type = TOOLS_LIST
                /\ tools_cache' = out[ClientConn][rpos'].tools]_allVars

\* C15: disconnect raises nothing and leaves the client not connected with
\* its writer closed if it had one; on a client that never connected or is
\* already disconnected it changes nothing; and on a client that is not
\* connected no request line is written by anything but connect, call_tool
\* (send_message) raising ConnectionError.
C15_DisconnectIsIdempotent ==
    [][/\ last'.op = "MCPClient.disconnect"
             => /\ ~last'.ret.raised
                /\ ~connected'
                /\ writer' # "open"
                /\ writer # "open" => clientVars' = clientVars
                /\ serverState' = serverState
       /\ ~connected
             => /\ Len(wire') > Len(wire)
                      => last'.op = "MCPClient.send" /\ last'.name = "connect"
                /\ last'.op = "MCPClient.call_tool"
                      => /\ last'.ret.raised
                         /\ last'.ret.value = <<"ConnectionError">>
                         /\ serverState' = serverState]_allVars

\* the client connected, sent its request, disconnected, and a call_tool
\* after that has just raised
C15_Witness ==
    /\ last.op = "MCPClient.call_tool" /\ last.ret.raised
    /\ writer = "closed" /\ ~connected
    /\ ClientSent = 1

\* ------------------------------------------------------------------------
\* The selector
\* ------------------------------------------------------------------------
\* the step is a select_tool call
SelectStep == sonar_calls'.select = sonar_calls.select + 1

\* the call returned a tool (and not None with an error)
ReturnedTool(s) == "error" \notin DOMAIN s.info

HighestFirst(scored) ==
    CHOOSE i \in DOMAIN scored :
        /\ \A j \in DOMAIN scored : ~QLess(scored[i].score, scored[j].score)
        /\ \A j \in 1..(i - 1) : QLess(scored[j].score, scored[i].score)

\* C16: when at least one candidate was scored, select_tool returns the
\* candidate with the maximum final score, the first in candidate order of
\* those that share it; the alternatives are other scored candidates, at most
\* three, none of them the selected tool.
C16_MaximumFirstInOrder ==
    [][SelectStep /\ selected'.scored # <<>>
          => LET scored == selected'.scored
                 best == HighestFirst(scored)
                 alternatives == selected'.info.alternatives
             IN /\ ReturnedTool(selected')
                /\ selected'.tool = scored[best].tool
                /\ selected'.info.selected_tool.id = scored[best].tool.id
                /\ selected'.info.selected_tool.score = scored[best].score
                /\ Len(alternatives) =
                      (IF Len(scored) > 3 THEN 3 ELSE Len(scored) - 1)
                /\ \A a \in DOMAIN alternatives :
                      /\ alternatives[a].id # selected'.tool.id
                      /\ \E i \in DOMAIN scored :
                            /\ i # best
                            /\ scored[i].tool.id = alternatives[a].id
                            /\ scored[i].score = alternatives[a].score]_allVars

\* five candidates were scored, the first two share the maximum, the first
\* was returned and three alternatives were recorded
C16_Witness ==
    /\ Len(selected.scored) = 5
    /\ selected.scored[1].score = selected.scored[2].score
    /\ \A i \in DOMAIN selected.scored :
          ~QLess(selected.scored[1].score, selected.scored[i].score)
    /\ selected.tool = selected.scored[1].tool
    /\ Len(selected.info.alternatives) = 3

\* the context filter leaves no tool, or no tool that passes it is similar
\* enough to the query for the semantic search to keep it
LeavesNoCandidate(call) ==
    LET filtered == filter_by_context(call.context) IN
    /\ ~filtered.raised
    /\ \/ filtered.value = <<>>
       \/ /\ call.use_semantic
          /\ ~EmbedderRaises(call.query)
          /\ \A i \in DOMAIN filtered.value :
                QLess(Similarity(call.query, filtered.value[i].id),
                      config.min_similarity_threshold)

\* C17: when the context filter or the semantic narrowing leaves no
\* candidate, select_tool returns (None, {error: "No suitable tools found"}),
\* appends no record and changes no NetworkMetrics entry.
C17_NoCandidateIsNormalReturn ==
    [][SelectStep /\ LeavesNoCandidate(invoked')
          => /\ selected'.info = [error |-> <<"No suitable tools found">>]
             /\ selected'.scored = <<>>
             /\ selection_history' = selection_history
             /\ network_metrics' = network_metrics]_allVars

\* a call whose context names a category of no tool has returned, after an
\* update had created a NetworkMetrics entry
C17_Witness ==
    /\ invoked.op = "select_tool"
    /\ "category" \in DOMAIN invoked.context
    /\ invoked.context.category = "void"
    /\ selected.info = [error |-> <<"No suitable tools found">>]
    /\ DOMAIN network_metrics # {}

\* filtering or the semantic search raises during the call
RaisesInside(call) ==
    LET filtered == filter_by_context(call.context) IN
    \/ filtered.raised
    \/ call.use_semantic /\ filtered.value # <<>> /\ EmbedderRaises(call.query)

\* C18: when filtering or scoring raises, select_tool returns
\* (None, {error, selection_id}) with the id of the call, and
\* selection_history and network_metrics are as they were before the call.
C18_ExceptionIsReturned ==
    [][SelectStep /\ RaisesInside(invoked')
          => /\ DOMAIN selected'.info = {"error", "selection_id"}
             /\ selected'.info.selection_id = <<"sel", Len(selection_history) + 1>>
             /\ selected'.scored = <<>>
             /\ selection_history' = selection_history
             /\ network_metrics' = network_metrics]_allVars

\* a call with required parameters met a tool whose parameters are bare
\* strings: the AttributeError was returned, after an update and with a
\* history of more than 20 records
C18_Witness ==
    /\ invoked.op = "select_tool"
    /\ "required_params" \in DOMAIN invoked.context
    /\ DOMAIN selected.info = {"error", "selection_id"}
    /\ selected.info.error = <<"AttributeError">>
    /\ selected.info.selection_id = <<"sel", Len(selection_history) + 1>>
    /\ Len(selection_history) > 20
    /\ DOMAIN network_metrics # {}

\* the records among the 20 most recent that chose tool id
UsesInLast20(history, id) ==
    Cardinality({i \in DOMAIN history :
                    /\ i > Len(history) - 20
                    /\ history[i].selected_tool.id = id})

DiversityOf(uses) == IF uses >= 18 THEN Q(1, 10) ELSE Q(20 - uses, 20)

\* C20: the diversity component of a tool is max(0.1, 1 - k/20) with k the
\* number of the 20 most recent records that chose it: 0.1 when all of them
\* did, 1.0 when none did, whatever older records chose; and that is the
\* diversity a selection records for the tool it returns.
C20_DiversityOverLast20 ==
    /\ [](\A id \in ToolIds :
             LET k == UsesInLast20(selection_history, id) IN
             /\ get_diversity_score(id) = DiversityOf(k)
             /\ k = 20 => get_diversity_score(id) = Q(1, 10)
             /\ k = 0 => get_diversity_score(id) = One)
    /\ [][SelectStep /\ ReturnedTool(selected')
             => selected'.info.score_components.diversity =
                   DiversityOf(UsesInLast20(selection_history,
                                            selected'.tool.id))]_allVars

\* the 20 records before the last all chose "add", an older one chose "sum",
\* and the selection that followed returned "sum" with diversity 1.0
C20_Witness ==
    /\ Len(selection_history) = 23
    /\ selection_history[1].selected_tool.id = "sum"
    /\ \A i \in 3..22 : selection_history[i].selected_tool.id = "add"
    /\ selection_history[23].selected_tool.id = "sum"
    /\ selection_history[23].score_components.diversity = One

\* ------------------------------------------------------------------------
\* The context filter
\* ------------------------------------------------------------------------
\* strings that differ by the case of their letters only
CaseClasses == {{"math", "Math", "MATH"}, {"x", "X"}, {"y", "Y"}}
SameFolded(a, b) == a = b \/ \E c \in CaseClasses : a \in c /\ b \in c

Declares(tool, required, Same(_, _)) ==
    \E i \in DOMAIN tool.parameters : Same(tool.parameters[i].name, required)

\* the tools the claim lets pass, with `Same` comparing categories
PassesContext(tool, context, Same(_, _)) ==
    /\ "category" \in DOMAIN context => Same(tool.category, context.category)
    /\ "required_params" \in DOMAIN context =>
          \A i \in DOMAIN context.required_params :
              Declares(tool, context.required_params[i], SameFolded)

Identical(a, b) == a = b

\* C21 as stated: the candidates of the filter are the catalog tools whose
\* category is the given one and whose parameter names, compared
\* case-insensitively, include every required name.
C21_CategoryIsTheGivenOne ==
    [][SelectStep /\ ~invoked'.filtered.raised
          => LET context == invoked'.context
                 Passes(tool) == PassesContext(tool, context, Identical)
             IN invoked'.filtered.value = SelectSeq(Catalog, Passes)]_allVars

\* C21: when the filter returns, its candidates are, in catalog order, the
\* catalog tools whose category is the given one up to the case of letters
\* (or no category is given) and whose parameter names, compared
\* case-insensitively, include every required name (or none is required);
\* with no context every tool of the catalog passes.
C21_FilterByContext ==
    [][SelectStep /\ ~invoked'.filtered.raised
          => LET context == invoked'.context
                 Passes(tool) == PassesContext(tool, context, SameFolded)
             IN /\ invoked'.filtered.value = SelectSeq(Catalog, Passes)
                /\ DOMAIN context = {} => invoked'.filtered.value = Catalog]_allVars

\* a call asked for category "math" with parameters X and Y: of the three
\* tools of the category, "add" and "sum" (of category "Math") declare both
C21_Witness ==
    /\ invoked.op = "select_tool"
    /\ DOMAIN invoked.context = {"category", "required_params"}
    /\ invoked.context.required_params = <<"X", "Y">>
    /\ ~invoked.filtered.raised
    /\ Len(invoked.filtered.value) = 2
    /\ invoked.filtered.value[1].id = "add"
    /\ invoked.filtered.value[2].id = "sum"
    /\ ReturnedTool(selected)

\* C22: without semantic search every tool that passes the filter is scored,
\* with semantic score 0.5, and the returned tool has the maximum final
\* score over all of them.
C22_ScoresFullFilteredSet ==
    [][/\ SelectStep
       /\ ~invoked'.use_semantic
       /\ ~invoked'.filtered.raised
       /\ invoked'.filtered.value # <<>>
          => LET candidates == invoked'.filtered.value
                 Score(tool) == compute_tool_score(tool, Q(1, 2),
                                                   invoked'.use_network)
             IN /\ ReturnedTool(selected')
                /\ selected'.info.score_components.semantic = Q(1, 2)
                /\ \A i \in DOMAIN candidates :
                      ~QLess(selected'.info.selected_tool.score,
                             Score(candidates[i]))]_allVars

\* ------------------------------------------------------------------------
\* NetworkMetrics
\* ------------------------------------------------------------------------
\* the step is an update_network_metrics call
UpdateStep == sonar_calls'.update = sonar_calls.update + 1

\* the samples of a tool before the step: none when it has no entry
LatenciesOf(metrics, id) ==
    IF id \in DOMAIN metrics THEN metrics[id].latency_history ELSE <<>>
SuccessesOf(metrics, id) ==
    IF id \in DOMAIN metrics THEN metrics[id].success_history ELSE <<>>

\* the n most recent of the samples, in submission order
MostRecent(samples, n) == [i \in 1..n |-> samples[Len(samples) - n + i]]

HistoriesBounded ==
    \A id \in DOMAIN network_metrics :
        /\ Len(network_metrics[id].latency_history) =
              Len(network_metrics[id].success_history)
        /\ Len(network_metrics[id].latency_history) <= 1000

TrimsAt1001 ==
    UpdateStep =>
        LET id == invoked'.tool_id
            latencies == Append(LatenciesOf(network_metrics, id), invoked'.latency)
            successes == Append(SuccessesOf(network_metrics, id), invoked'.success)
            after == network_metrics'[id]
        IN /\ Len(latencies) = 1001 =>
                 /\ after.latency_history = MostRecent(latencies, 500)
                 /\ after.success_history = MostRecent(successes, 500)
           /\ Len(latencies) <= 1000 =>
                 /\ after.latency_history = latencies
                 /\ after.success_history = successes
           /\ \A other \in DOMAIN network_metrics \ {id} :
                 network_metrics'[other] = network_metrics[other]

\* C23: latency_history and success_history of an entry have the same
\* length, at most 1000; the update that would make it 1001 cuts both to the
\* 500 most recent samples in submission order, and an update that leaves
\* it at 1000 or below trims nothing.
C23_HistoryTrimmedAt1001 == []HistoriesBounded /\ [][TrimsAt1001]_allVars

\* an entry that held 1000 samples took one more and now holds the samples
\* 502 .. 1000 followed by the new one
C23_Witness ==
    /\ invoked.op = "update_network_metrics"
    /\ invoked.tool_id = "add"
    /\ "add" \in DOMAIN network_metrics
    /\ network_metrics["add"].call_count = 1001
    /\ Len(network_metrics["add"].latency_history) = 500
    /\ network_metrics["add"].latency_history[1] = 502
    /\ network_metrics["add"].latency_history[500] = invoked.latency
    /\ network_metrics["add"].success_history[500] = invoked.success

\* C24: reliability_score of every NetworkMetrics entry is within [0, 1].
C24_ReliabilityWithinUnit ==
    \A id \in DOMAIN network_metrics :
        /\ ~QLess(reliability_score(network_metrics[id]), Zero)
        /\ ~QLess(One, reliability_score(network_metrics[id]))

\* ------------------------------------------------------------------------
\* The wire form of a request
\* ------------------------------------------------------------------------
\* a == b of Python, on the values of the model
RECURSIVE PyEq(_, _)
PyEq(a, b) ==
    /\ a.py = b.py
    /\ CASE a.py \in {"list", "tuple"} ->
                /\ Len(a.v) = Len(b.v)
                /\ \A i \in DOMAIN a.v : PyEq(a.v[i], b.v[i])
         [] a.py = "dict" ->
                /\ Len(a.v.keys) = Len(b.v.keys)
                /\ \A i \in DOMAIN a.v.keys :
                      \E j \in DOMAIN b.v.keys :
                          /\ a.v.keys[i].py = b.v.keys[j].py
                          /\ a.v.keys[i].v = b.v.keys[j].v
                          /\ PyEq(a.v.vals[i], b.v.vals[j])
         [] OTHER -> a.v = b.v

\* a value of JSON: a string, a number, a boolean, null, an array of such
\* values or an object with string keys and such values
RECURSIVE IsJson(_)
IsJson(value) ==
    CASE value.py \in {"str", "int", "bool", "none"} -> TRUE
      [] value.py = "list" -> \A i \in DOMAIN value.v : IsJson(value.v[i])
      [] value.py = "dict" ->
            \A i \in DOMAIN value.v.keys :
                value.v.keys[i].py = "str" /\ IsJson(value.v.vals[i])
      [] OTHER -> FALSE

\* what the client wrote is one line: its only newline is its last byte
SingleLine ==
    codec_pc \in {"written", "read"} =>
        /\ written # <<>>
        /\ \A i \in DOMAIN written : written[i] = "\n" <=> i = Len(written)

SameRequest ==
    /\ ~received.raised
    /\ PyEq(received.value.tool, request.tool)
    /\ PyEq(received.value.arguments, request.arguments)

\* C25 as stated: the server's read of the encoded request gives the same
\* tool and an equal arguments object, whatever the request, and the
\* encoded request is a single line.
C25_RoundTripOfAnyRequest ==
    /\ SingleLine
    /\ codec_pc = "read" => SameRequest

\* C25: the server's read of the encoded request gives the same tool and an
\* equal arguments object when the arguments are JSON values and the line
\* is not longer than the server's limit; a tuple comes back as a list, a
\* key that is not a string as a string, a longer line is not decoded; and
\* what the client writes is a single line whose only newline is the last
\* byte.
C25_RoundTripOfJsonRequest ==
    /\ SingleLine
    /\ codec_pc = "read" =>
          /\ IsJson(request.arguments)
               /\ Size(written) - 1 <= max_buffer_size => SameRequest
          /\ Size(written) - 1 > max_buffer_size => received.raised
          /\ ~received.raised =>
                /\ PyEq(received.value.tool, request.tool)
                /\ IsJson(received.value.arguments)

\* a request whose tool name and whose arguments hold a newline was encoded,
\* read by the server and decoded to the same request
C25_Witness ==
    /\ codec_pc = "read"
    /\ \E i \in DOMAIN request.tool.v : request.tool.v[i] = "\n"
    /\ request.arguments = PyDict(<<Key("x")>>, <<PyStr(<<"a", "\n", "b">>)>>)
    /\ \E i \in DOMAIN written : written[i] = "\\" /\ written[i + 1] = "n"
    /\ SameRequest

\* ------------------------------------------------------------------------
\* Requests and their responses on the client's connection
\* ------------------------------------------------------------------------
\* the messages among the first n the server wrote to the client that are
\* responses to requests
ResponsesUpTo(n) ==
    Cardinality({i \in 1..n : ~IsNotification(out[ClientConn][i])})

\* the step is the read of a line by the call that is running
ReadsResponse == running # None /\ rpos' = rpos + 1

\* the server answers the requests of a connection in the order it read
\* them: it has written one response for each request it has read, except
\* the call whose handler is running
AnsweredInOrder ==
    Responses(ClientConn) =
        reqs[ClientConn] - (IF pc[ClientConn] = "handler" THEN 1 ELSE 0)

\* the line is a notification of the server, not a response
ReadsNotification == ReadsResponse /\ IsNotification(out[ClientConn][rpos'])

\* the line is the response to a request written before the one of the
\* running call
ReadsStaleResponse ==
    /\ ReadsResponse
    /\ ~IsNotification(out[ClientConn][rpos'])
    /\ ResponsesUpTo(rpos') < ClientSent

\* C26: the line send_message reads and returns is the response the server
\* wrote for the request of this call: not a notification, and not the
\* response to an earlier request of the client.
C26_ResponseOfSameRequest ==
    [][ReadsResponse
          => /\ ~IsNotification(out[ClientConn][rpos'])
             /\ ResponsesUpTo(rpos') = ClientSent]_allVars

\* ------------------------------------------------------------------------
\* A broadcast and a client that does not drain
\* ------------------------------------------------------------------------
\* client c is in the snapshot of the running broadcast of tool `name`
InBroadcast(c, name) ==
    \E i \in DOMAIN tasks :
        /\ tasks[i].started
        /\ tasks[i].notification.tool.name = name
        /\ c \in tasks[i].snapshot

\* C27: a broadcast is not held up by one client that never drains: every
\* other client of the broadcast is eventually sent the notification, unless
\* its own connection ends first.
C27_OthersEventuallyNotified ==
    \A c \in Conns \ {SlowConn} : \A name \in Names :
        InBroadcast(c, name) ~> (Notified(c, name) # {} \/ pc[c] = "closed")

\* ------------------------------------------------------------------------
\* A broadcast and a client whose write fails
\* ------------------------------------------------------------------------
SentIn(o, name) ==
    \E k \in DOMAIN o : IsNotification(o[k]) /\ o[k].tool.name = name
TaskOf(name) == CHOOSE i \in DOMAIN tasks : tasks[i].notification.tool.name = name

\* every state: the part of the snapshot that a running broadcast has gone
\* through is made of clients that were sent the notification or whose
\* connection is closed
SnapshotState ==
    \A i \in DOMAIN tasks :
        tasks[i].started
            => /\ tasks[i].todo \subseteq tasks[i].snapshot
               /\ tasks[i].todo # {}
               /\ \A c \in tasks[i].snapshot \ tasks[i].todo :
                     \/ Notified(c, tasks[i].notification.tool.name) # {}
                     \/ pc[c] = "closed"

\* every step of a broadcast takes one client of the snapshot made when the
\* broadcast began; a closed writer is sent nothing and the loop goes on with
\* the rest; after the last client every client of the snapshot was sent the
\* notification or is closed; the registry, the counters and the connections
\* are left alone. Every other step leaves the running broadcasts alone.
SnapshotStep ==
    /\ last'.op = "notify" /\ last'.conn # None
          => LET i == TaskOf(last'.name)
                 c == last'.conn
                 snapshot == IF tasks[i].started THEN tasks[i].snapshot ELSE clients
                 todo == IF tasks[i].started THEN tasks[i].todo ELSE clients
             IN /\ c \in todo
                /\ out' = IF pc[c] = "closed"
                          THEN out
                          ELSE [out EXCEPT ![c] = Append(@, tasks[i].notification)]
                /\ IF todo = {c}
                   THEN /\ tasks' = RemoveAt(tasks, i)
                        /\ \A d \in snapshot :
                              \/ SentIn(out'[d], last'.name)
                              \/ pc'[d] = "closed"
                   ELSE /\ Len(tasks') = Len(tasks)
                        /\ tasks'[i].started
                        /\ tasks'[i].snapshot = snapshot
                        /\ tasks'[i].todo = todo \ {c}
                /\ UNCHANGED <<tools, handlers, stats, calls, clients, pc>>
    /\ last'.op \in {"connect", "break"}
          => /\ tasks' = tasks
             /\ UNCHANGED <<tools, handlers, stats, calls, out>>

\* C28: the broadcast goes through a snapshot of the client set: a write that
\* fails is swallowed and the other clients of the snapshot are still sent
\* the notification, connections that begin or end meanwhile change neither
\* the snapshot nor the registration, which stays successful.
C28_SnapshotBroadcast == []SnapshotState /\ [][SnapshotStep]_allVars

\* the write to w2, closed since the broadcast began, has just failed, w1 was
\* sent the notification before and w3 is still to come
C28_Witness ==
    /\ last.op = "notify" /\ last.conn = "w2"
    /\ pc["w2"] = "closed"
    /\ Notified("w2", last.name) = {}
    /\ Notified("w1", last.name) # {}
    /\ \E i \in DOMAIN tasks :
          /\ tasks[i].notification.tool.name = last.name
          /\ tasks[i].snapshot = Conns
          /\ tasks[i].todo = {"w3"}
    /\ last.name \in ToolNames
    /\ calls.returned_true >= 1

\* ------------------------------------------------------------------------
\* The client set and the connection tasks
\* ------------------------------------------------------------------------
\* the writers whose _handle_client task is in its loop
Running(p) == {c \in Conns : p[c] \in {"read", "handler"}}

ClientsState ==
    /\ clients = Running(pc)
    /\ get_stats.clients = Cardinality(Running(pc))

\* a writer enters the set when its connection is accepted; a task that
\* leaves its loop, by whatever path, takes its writer out of the set and
\* closes it, and no writer leaves the set otherwise
ClientsStep ==
    /\ \A c \in Conns :
          /\ pc[c] = "new" /\ pc'[c] # "new"
                => pc'[c] = "read" /\ clients' = clients \cup {c}
          /\ c \in Running(pc) /\ c \notin Running(pc')
                => /\ pc'[c] = "closed"
                   /\ clients' = clients \ {c}
                   /\ last'.op \in {"break", "call_tool"}
                   /\ last'.conn = c
                   /\ last'.ret.raised
          /\ pc[c] = "closed" => pc'[c] = "closed"
    /\ clients' # clients => Running(pc') # Running(pc)

\* C29: the clients set is exactly the set of writers whose _handle_client
\* task is running: a writer is added on connect and, whatever ends the
\* connection, removed and closed, so get_stats().clients is the number of
\* live connections.
C29_ClientsAreRunningTasks == []ClientsState /\ [][ClientsStep]_vars

\* the connection was ended by an exception nothing names (a message that is
\* not an object): its writer is closed and the set is empty again
C29_Witness ==
    /\ last.op = "break"
    /\ last.conn = "w1"
    /\ last.ret = Raised("AttributeError")
    /\ pc["w1"] = "closed"
    /\ clients = {}
    /\ get_stats.clients = 0

\* ------------------------------------------------------------------------
\* An error on one of several connections
\* ------------------------------------------------------------------------
\* the step answers a request of connection d
Answers(d) ==
    /\ last'.conn = d
    /\ \/ last'.op \in {"list_tools", "unknown", "invalid_json"}
       \/ last'.op = "call_tool" /\ ~last'.ret.raised

\* the step ends the task of connection c
Ends(c) == c \in Running(pc) /\ c \notin Running(pc')

ErrorsStep ==
    /\ \A c \in Conns :
          Ends(c)
              => /\ last'.conn = c
                 /\ last'.ret.raised
                 /\ \A d \in Conns \ {c} :
                       /\ pc'[d] = pc[d]
                       /\ d \in clients' <=> d \in clients
                       /\ out'[d] = out[d]
                       /\ cur'[d] = cur[d]
    /\ \A d \in Conns :
          Answers(d)
              => /\ d \in clients'
                 /\ pc'[d] = "read"
                 /\ Len(out'[d]) = Len(out[d]) + 1
                 /\ ~IsNotification(out'[d][Len(out'[d])])
                 /\ \A e \in Conns \ {d} : out'[e] = out[e]

\* a connection that is reading or awaiting its handler is in the set,
\* whatever became of the others
ErrorsState == \A d \in Conns : d \in Running(pc) => d \in clients

\* C30: with several clients connected, an error on one connection (peer
\* close, unrecoverable read, exception while handling its message) ends
\* that connection's task only: the others stay in the client set and their
\* requests are still answered.
C30_ErrorEndsOneConnection == []ErrorsState /\ [][ErrorsStep]_allVars

\* w1's only line ended its connection without a response; w2, connected
\* with it, has just been answered and is still in the set
C30_Witness ==
    /\ pc["w1"] = "closed"
    /\ reqs["w1"] = 1
    /\ out["w1"] = <<>>
    /\ last.op = "list_tools"
    /\ last.conn = "w2"
    /\ reqs["w2"] = 1
    /\ Len(out["w2"]) = 1
    /\ clients = {"w2"}
    /\ pc["w2"] = "read"

\* ------------------------------------------------------------------------
\* The call counters
\* ------------------------------------------------------------------------
\* the call_tool invocations that have started and neither returned nor raised
InFlight == {c \in Conns : pc[c] = "handler"}

\* C31: in every reachable state total_calls is successful_calls plus
\* failed_calls plus the number of calls in flight, whatever the requests
\* contain.
C31_CallsAddUp ==
    stats.total_calls =
        stats.successful_calls + stats.failed_calls + Cardinality(InFlight)

\* ------------------------------------------------------------------------
\* Updates of the metrics between other calls
\* ------------------------------------------------------------------------
CallCountOf(metrics, id) ==
    IF id \in DOMAIN metrics THEN metrics[id].call_count ELSE 0

\* s is what is left of t when samples are dropped from its front
IsSuffix(s, t) ==
    /\ Len(s) <= Len(t)
    /\ \A i \in DOMAIN s : s[i] = t[Len(t) - Len(s) + i]

RECURSIVE CallCounts(_, _)
CallCounts(metrics, ids) ==
    IF ids = {} THEN 0
    ELSE LET id == CHOOSE x \in ids : TRUE
         IN metrics[id].call_count + CallCounts(metrics, ids \ {id})

\* every update made so far is counted in the entry of its tool, and while
\* nothing was trimmed every sample is in the history
NothingLost ==
    /\ CallCounts(network_metrics, DOMAIN network_metrics) = sonar_calls.update
    /\ \A id \in DOMAIN network_metrics :
          /\ Len(network_metrics[id].latency_history) = network_metrics[id].call_count
          /\ Len(network_metrics[id].success_history) = network_metrics[id].call_count

\* an update adds one to the call_count of its tool and puts its sample
\* after the samples already there, leaving every other entry as it was; a
\* call that is not an update leaves the metrics as they were
LosesNothing ==
    IF UpdateStep
    THEN LET id == invoked'.tool_id
             after == network_metrics'[id]
         IN /\ DOMAIN network_metrics' = DOMAIN network_metrics \cup {id}
            /\ after.call_count = CallCountOf(network_metrics, id) + 1
            /\ IsSuffix(after.latency_history,
                        Append(LatenciesOf(network_metrics, id), invoked'.latency))
            /\ IsSuffix(after.success_history,
                        Append(SuccessesOf(network_metrics, id), invoked'.success))
            /\ after.latency_history # <<>>
            /\ after.success_history # <<>>
            /\ \A other \in DOMAIN network_metrics \ {id} :
                  network_metrics'[other] = network_metrics[other]
    ELSE network_metrics' = network_metrics

\* C32: no update is lost, however update_network_metrics and select_tool
\* calls interleave: after N updates of one tool its call_count has grown by
\* N and the N samples were appended in call order, and an update of one tool
\* leaves the metrics of every other tool unchanged.
C32_NoLostUpdate == []NothingLost /\ [][LosesNothing]_allVars

\* two updates of one tool: both are counted and their samples are in call
\* order
C32_Witness ==
    /\ sonar_calls.update = 2
    /\ DOMAIN network_metrics = {"add"}
    /\ network_metrics["add"].call_count = 2
    /\ network_metrics["add"].latency_history = <<2500, 100>>
    /\ network_metrics["add"].success_history = <<FALSE, TRUE>>

\* ------------------------------------------------------------------------
\* Who changes the metrics, the history and the catalog
\* ------------------------------------------------------------------------
\* an entry exists for exactly the tools that had an update
EntriesState ==
    \A id \in DOMAIN network_metrics :
        /\ network_metrics[id].call_count >= 1
        /\ network_metrics[id].tool_id = id

EntriesStep ==
    /\ DOMAIN network_metrics \subseteq DOMAIN network_metrics'
    /\ \A id \in DOMAIN network_metrics' \ DOMAIN network_metrics :
          /\ UpdateStep
          /\ invoked'.tool_id = id
          /\ network_metrics'[id].call_count = 1
    /\ SelectStep => network_metrics' = network_metrics
    /\ UpdateStep => /\ selection_history' = selection_history
                     /\ config' = config
                     /\ selected' = selected

\* C33: a NetworkMetrics entry exists only after the first update of its
\* tool and is never removed; select_tool, whether it returns a tool, finds
\* no candidate or fails, leaves network_metrics unchanged, and
\* update_network_metrics leaves selection_history and the catalog unchanged.
C33_MetricsLifecycle == []EntriesState /\ [][EntriesStep]_allVars

\* a select_tool call that failed after an update: the entry is as the
\* update left it
C33_Witness ==
    /\ invoked.op = "select_tool"
    /\ "error" \in DOMAIN selected.info
    /\ "selection_id" \in DOMAIN selected.info
    /\ DOMAIN network_metrics = {"sum"}
    /\ network_metrics["sum"].call_count = 1
    /\ sonar_calls.update = 1

\* ------------------------------------------------------------------------
\* The selection history
\* ------------------------------------------------------------------------
\* the final score that a breakdown gives under the configured weights
ScoreOf(components, use_network) ==
    LET network == IF use_network THEN <<components.network>> ELSE <<>>
        network_w == IF use_network THEN <<config.network_weight>> ELSE <<>>
        scores == <<components.semantic>> \o network
                    \o <<components.diversity, components.quality>>
        weights == <<config.semantic_weight>> \o network_w
                    \o <<config.diversity_weight, QualityWeight>>
        total == QSum(weights)
        sum == QSum([i \in DOMAIN scores |->
                        QMul(scores[i], QDiv(weights[i], total))])
    IN QMin(One, QMax(Zero, sum))

\* the k-th record carries the selection id sel_k
RecordsNumbered ==
    \A k \in DOMAIN selection_history :
        selection_history[k].selection_id = <<"sel", k>>

AppendsOnly ==
    /\ Len(selection_history') >= Len(selection_history)
    /\ \A k \in DOMAIN selection_history :
          selection_history'[k] = selection_history[k]
    /\ IF SelectStep /\ ReturnedTool(selected')
       THEN LET k == Len(selection_history) + 1
                record == selection_history'[k]
            IN /\ Len(selection_history') = k
               /\ record = selected'.info
               /\ record.selection_id = <<"sel", k>>
               /\ record.selected_tool.id = selected'.tool.id
               /\ record.selected_tool.score =
                     ScoreOf(record.score_components, invoked'.use_network)
       ELSE selection_history' = selection_history

\* C34: selection_history is append-only: a select_tool call that returns a
\* tool appends exactly one record, the k-th record carrying selection_id
\* sel_k and the breakdown that was used to score the chosen tool; a call
\* that returns no tool appends nothing, and no operation modifies or removes
\* a record.
C34_HistoryAppendOnly == []RecordsNumbered /\ [][AppendsOnly]_allVars

\* two calls in a row returned a tool, after 21 earlier selections: the
\* records 22 and 23 are theirs, the second scored by a similarity that is
\* not the default
C34_Witness ==
    /\ sonar_calls.select = 2
    /\ Len(selection_history) = 23
    /\ ReturnedTool(selected)
    /\ selection_history[23] = selected.info
    /\ selection_history[23].selection_id = <<"sel", 23>>
    /\ selection_history[22].selection_id = <<"sel", 22>>
    /\ selection_history[23].score_components.semantic # DefaultSemanticScore

\* ------------------------------------------------------------------------
\* The final score and the weights
\* ------------------------------------------------------------------------
\* the last call scored candidates
Scored == invoked.op = "select_tool" /\ selected.scored # <<>>

WithinUnit(q) == ~QLess(q, Zero) /\ ~QLess(One, q)

ScoresWithinUnit ==
    \A i \in DOMAIN selected.scored : WithinUnit(selected.scored[i].score)

\* the network weight is among the weights exactly when use_network is true
NetworkWeightLeftOut ==
    Len(normalized_weights(invoked.use_network)) =
        IF invoked.use_network THEN 4 ELSE 3

\* C35 as stated: every final score is in [0, 1] and the weights applied sum
\* to 1, whatever the signals and the configured weights.
C35_WeightsSumToOne ==
    Scored => /\ ScoresWithinUnit
              /\ NetworkWeightLeftOut
              /\ QSum(normalized_weights(invoked.use_network)) = One

\* C35 (amended): every final score is in [0, 1]; the weights applied are the
\* assembled ones divided by their sum, and sum to 1, when that sum is
\* positive, and the assembled ones as they are otherwise; the network weight
\* is assembled only when use_network is true.
C35_WeightsNormalizedWhenPositive ==
    Scored =>
        LET weights == assembled_weights(invoked.use_network)
            applied == normalized_weights(invoked.use_network)
        IN /\ ScoresWithinUnit
           /\ NetworkWeightLeftOut
           /\ IF QLess(Zero, QSum(weights))
              THEN /\ QSum(applied) = One
                   /\ \A i \in DOMAIN weights :
                         applied[i] = QDiv(weights[i], QSum(weights))
              ELSE applied = weights

\* a call without the network signal under a configuration whose network
\* weight is not zero: three weights were applied and they sum to 1
C35_Witness ==
    /\ Scored
    /\ ~invoked.use_network
    /\ config.network_weight = Q(3, 10)
    /\ Len(normalized_weights(FALSE)) = 3
    /\ QSum(normalized_weights(FALSE)) = One
    /\ normalized_weights(FALSE) # assembled_weights(FALSE)

\* ------------------------------------------------------------------------
\* Selection without the network signal
\* ------------------------------------------------------------------------
\* the similarity a call scores a tool with
SemanticOf(call, id) ==
    IF call.use_semantic THEN Similarity(call.query, id) ELSE DefaultSemanticScore

\* the final score of a tool from the query, the history and the catalog
\* alone
BlindScore(call, tool) ==
    ScoreOf([semantic |-> SemanticOf(call, tool.id),
             diversity |-> DiversityOf(UsesInLast20(selection_history, tool.id)),
             quality |-> evaluate_tool_quality(tool)],
            FALSE)

\* C36: with use_network false the result of select_tool does not depend on
\* the NetworkMetrics: whatever they hold, every score, the returned tool
\* and its final score are those given by the query, the history and the
\* catalog alone, and score_components has no network entry.
C36_BlindToNetworkMetrics ==
    [][SelectStep /\ ~invoked'.use_network /\ selected'.scored # <<>>
          => LET scored == selected'.scored
                 best == HighestFirst([i \in DOMAIN scored |->
                                          [tool |-> scored[i].tool,
                                           score |-> BlindScore(invoked', scored[i].tool)]])
             IN /\ \A i \in DOMAIN scored :
                      scored[i].score = BlindScore(invoked', scored[i].tool)
                /\ selected'.tool = scored[best].tool
                /\ selected'.info.selected_tool.score =
                      BlindScore(invoked', selected'.tool)
                /\ DOMAIN selected'.info.score_components =
                      {"semantic", "diversity", "quality"}]_allVars

\* a call without the network signal returned "add" while the metrics held
\* an entry for "add" whose reliability is not the default
C36_Witness ==
    /\ invoked.op = "select_tool"
    /\ ~invoked.use_network
    /\ selected.scored # <<>>
    /\ selected.tool.id = "add"
    /\ "add" \in DOMAIN network_metrics
    /\ reliability_score(network_metrics["add"]) # DefaultNetworkScore
    /\ "network" \notin DOMAIN selected.info.score_components

\* ------------------------------------------------------------------------
\* Reliability and diversity between like candidates
\* ------------------------------------------------------------------------
\* candidate a is as similar and as well described as b, more reliable and
\* less often among the last 20 selections
Preferable(call, a, b) ==
    /\ SemanticOf(call, a.id) = SemanticOf(call, b.id)
    /\ evaluate_tool_quality(a) = evaluate_tool_quality(b)
    /\ QLess(get_network_score(b.id), get_network_score(a.id))
    /\ UsesInLast20(selection_history, a.id) < UsesInLast20(selection_history, b.id)

\* C37: of two candidates with equal semantic and quality scores, the one
\* with the higher reliability and fewer selections among the last 20
\* records gets the higher final score and the other one is not chosen.
C37_ReliableAndRareWins ==
    [][SelectStep /\ selected'.scored # <<>>
          => LET scored == selected'.scored IN
             \A i, j \in DOMAIN scored :
                 Preferable(invoked', scored[i].tool, scored[j].tool)
                     => /\ QLess(scored[j].score, scored[i].score)
                        /\ selected'.tool # scored[j].tool]_allVars

\* "sum", of reliability 0.9 and in none of the 20 records before the call,
\* was chosen over "add", of reliability 0.2 and in 15 of them, both with
\* the default similarity
C37_Witness ==
    /\ invoked.op = "select_tool"
    /\ invoked.use_network /\ ~invoked.use_semantic
    /\ sonar_calls = [select |-> 1, update |-> 0]
    /\ Len(selection_history) = 21
    /\ get_network_score("sum") = Q(9, 10)
    /\ get_network_score("add") = Q(1, 5)
    /\ Cardinality({k \in 1..20 : selection_history[k].selected_tool.id = "add"}) = 15
    /\ \A k \in 1..20 : selection_history[k].selected_tool.id # "sum"
    /\ selected.tool.id = "sum"
    /\ \E i, j \in DOMAIN selected.scored :
          /\ selected.scored[i].tool.id = "sum"
          /\ selected.scored[j].tool.id = "add"
          /\ QLess(selected.scored[j].score, selected.scored[i].score)

\* ------------------------------------------------------------------------
\* The counters only grow
\* ------------------------------------------------------------------------
Counters == {"tools_registered", "total_calls", "successful_calls", "failed_calls"}

\* C38: no step of the server (a registration, a connection accepted or
\* ended, a request of any kind read, a handler returning, a broadcast)
\* decreases or resets tools_registered, total_calls, successful_calls or
\* failed_calls, and the counters stay the four the constructor made.
C38_CountersNeverDecrease ==
    [][/\ DOMAIN stats' = Counters
       /\ \A k \in Counters : stats'[k] >= stats[k]]_vars

\* every counter has grown (a registration, a call that succeeded and one
\* that failed) and the connection has ended
C38_Witness ==
    /\ \A k \in Counters : stats[k] >= 1
    /\ get_stats.total_calls = 2
    /\ get_stats.clients = 0
    /\ pc["w1"] = "closed"

\* ------------------------------------------------------------------------
\* Counts over the whole lifetime of an entry
\* ------------------------------------------------------------------------
SuccessCountOf(metrics, id) ==
    IF id \in DOMAIN metrics THEN metrics[id].success_count ELSE 0

\* the successes among the retained samples
RetainedSuccesses(m) ==
    Cardinality({i \in DOMAIN m.success_history : m.success_history[i]})

CountsInRange ==
    \A id \in DOMAIN network_metrics :
        LET m == network_metrics[id] IN
        /\ 0 <= m.success_count
        /\ m.success_count <= m.call_count
        /\ m.call_count >= Len(m.latency_history)

\* an update adds one call, and one success when it reports success, to the
\* counts the tool had, whether or not the history is trimmed; the counts
\* of the other tools stay
CountsEveryUpdate ==
    UpdateStep =>
        LET id == invoked'.tool_id
            count == CallCountOf(network_metrics, id) + 1
            succeeded == SuccessCountOf(network_metrics, id)
                             + (IF invoked'.success THEN 1 ELSE 0)
        IN /\ network_metrics'[id].call_count = count
           /\ network_metrics'[id].success_count = succeeded
           /\ success_rate(network_metrics'[id]) = Q(succeeded, count)
           /\ \A other \in DOMAIN network_metrics \ {id} :
                 /\ network_metrics'[other].call_count
                        = network_metrics[other].call_count
                 /\ network_metrics'[other].success_count
                        = network_metrics[other].success_count

\* C39: call_count is the number of updates ever made for the tool and
\* success_count the number of those that reported success: each update adds
\* exactly one call, and one success when success is true, also when it
\* trims the history; 0 <= success_count <= call_count and call_count >=
\* len(latency_history) in every state; success_rate is success_count over
\* call_count, not the rate of the retained samples.
C39_CountsOverLifetime ==
    []CountsInRange /\ [][CountsEveryUpdate]_allVars

\* the 1001st update of "add" trimmed its history to 500 samples: the
\* counts are those of all 1001 calls and the success rate is not the rate
\* of the retained samples
C39_Witness ==
    /\ invoked.op = "update_network_metrics"
    /\ invoked.tool_id = "add"
    /\ "add" \in DOMAIN network_metrics
    /\ LET m == network_metrics["add"] IN
       /\ Len(m.latency_history) = HistoryKept
       /\ m.call_count = HistoryLimit + 1
       /\ m.success_count > RetainedSuccesses(m)
       /\ success_rate(m) = Q(m.success_count, m.call_count)
       /\ success_rate(m) # Q(RetainedSuccesses(m), Len(m.success_history))

====
